---- MODULE Spec2Model ----
(***************************************************************************)
(* State-machine model of the caching and search-acceleration core of the  *)
(* Obsidian vault server: the persistent store partitions, the listing,    *)
(* content and search caches, the inverted index and the file watcher.     *)
(*                                                                         *)
(* Conventions.  An optional value (null / undefined in the source) is a   *)
(* sequence of length 0 or 1.  A JavaScript Map, whose iteration order is  *)
(* insertion order, is a sequence of [key, val] records.  A persistent     *)
(* store partition is a function whose domain is the set of stored keys.   *)
(***************************************************************************)
EXTENDS Integers, Sequences, FiniteSets, TLC

\* ------------------------------------------------------------------------
\* Bounds of the model
\* ------------------------------------------------------------------------
MaxTime == 2
MaxCap == 2
MaxTtl == 1
SmallThreshold == 100

\* ------------------------------------------------------------------------
\* Generic helpers
\* ------------------------------------------------------------------------
Absent == << >>

Some(v) == << v >>

EmptyDb == << >>

SeqToSet(s) == { s[i] : i \in 1..Len(s) }

\* JavaScript Map (insertion ordered)
MapHas(m, k) == \E i \in 1..Len(m) : m[i].key = k

MapGet(m, k) == (CHOOSE e \in SeqToSet(m) : e.key = k).val

MapDelete(m, k) == SelectSeq(m, LAMBDA e : e.key # k)

MapSet(m, k, v) ==
    IF MapHas(m, k)
    THEN [i \in 1..Len(m) |-> IF m[i].key = k THEN [key |-> k, val |-> v] ELSE m[i]]
    ELSE Append(m, [key |-> k, val |-> v])

MapKeys(m) == { m[i].key : i \in 1..Len(m) }

\* ------------------------------------------------------------------------
\* PersistentCache: one named partition of the shared store.
\* `open` is PersistentCache.db !== null.
\* ------------------------------------------------------------------------
\* mutant: the row is written although no database was opened
PersistentSet_WithoutDatabase(db, open, key, data, mtime, t) ==
    [k \in (DOMAIN db) \cup {key} |->
        IF k = key THEN [data |-> data, timestamp |-> t, mtime |-> mtime]
        ELSE db[k]]

\* mutant: the modification time is not written with the row
PersistentSet_NoMtime(db, open, key, data, mtime, t) ==
    IF ~open THEN db
    ELSE [k \in (DOMAIN db) \cup {key} |->
            IF k = key THEN [data |-> data, timestamp |-> t, mtime |-> Absent]
            ELSE db[k]]

PersistentSet(db, open, key, data, mtime, t) ==
    IF ~open THEN db
    ELSE [k \in (DOMAIN db) \cup {key} |->
            IF k = key THEN [data |-> data, timestamp |-> t, mtime |-> mtime]
            ELSE db[k]]

PersistentDelete(db, open, key) ==
    IF ~open THEN db
    ELSE [k \in (DOMAIN db) \ {key} |-> db[k]]

PersistentClear(db, open) == IF ~open THEN db ELSE EmptyDb

PersistentHas(db, open, key) == open /\ key \in DOMAIN db

PersistentGetWithTtl(db, open, key, ttl, t) ==
    IF ~open \/ key \notin DOMAIN db THEN [db |-> db, value |-> Absent]
    ELSE IF t - db[key].timestamp > ttl
         THEN [db |-> PersistentDelete(db, open, key), value |-> Absent]
         ELSE [db |-> db, value |-> Some(db[key].data)]

PersistentGetWithMtime(db, open, key, currentMtime) ==
    IF ~open \/ key \notin DOMAIN db THEN [db |-> db, value |-> Absent]
    ELSE IF db[key].mtime # Some(currentMtime)
         THEN [db |-> PersistentDelete(db, open, key), value |-> Absent]
         ELSE [db |-> db, value |-> Some(db[key].data)]

\* ------------------------------------------------------------------------
\* ContentCache
\* ------------------------------------------------------------------------
\* a.md, dir/b.md, dir\b.md, c.md as sequences of characters
ContentPaths ==
    { << "a", ".", "m", "d" >>,
      << "d", "i", "r", "/", "b", ".", "m", "d" >>,
      << "d", "i", "r", "\\", "b", ".", "m", "d" >>,
      << "c", ".", "m", "d" >> }

Contents == { "c1", "c2" }

\* the modification times of the staleness test: 100 when stored, 200 when read
Mtimes == { 100, 200 }

\* filePath.replace(/\\/g, '/')
ContentNormalizePath(p) ==
    [i \in 1..Len(p) |-> IF p[i] = "\\" THEN "/" ELSE p[i]]

\* mutant: nothing is dropped when the Map is at capacity
EvictOldest_Never(cache, maxSize) == cache

\* while (cache.size >= maxSize) delete the first key of the Map
RECURSIVE EvictOldest(_, _)
EvictOldest(cache, maxSize) ==
    IF Len(cache) >= maxSize THEN EvictOldest(Tail(cache), maxSize) ELSE cache

ContentSetInMemory(cache, maxSize, key, entry) ==
    LET removed == IF MapHas(cache, key) THEN MapDelete(cache, key) ELSE cache
    IN  MapSet(EvictOldest(removed, maxSize), key, entry)

\* mutant: a stale memory entry is dropped from memory only
ContentGet_KeepsStaleRow(cache, db, open, maxSize, filePath, currentMtime) ==
    LET key == ContentNormalizePath(filePath) IN
    IF MapHas(cache, key)
    THEN LET memoryEntry == MapGet(cache, key) IN
         IF memoryEntry.mtime # currentMtime
         THEN [cache |-> MapDelete(cache, key), db |-> db, result |-> Absent]
         ELSE [cache |-> MapSet(MapDelete(cache, key), key, memoryEntry),
               db |-> db,
               result |-> Some(memoryEntry.content)]
    ELSE LET got == PersistentGetWithMtime(db, open, key, currentMtime) IN
         IF got.value # Absent
         THEN [cache |-> ContentSetInMemory(cache, maxSize, key, got.value[1]),
               db |-> got.db,
               result |-> Some(got.value[1].content)]
         ELSE [cache |-> cache, db |-> got.db, result |-> Absent]

\* get(filePath, currentMtime): [cache, db, result]
ContentGet(cache, db, open, maxSize, filePath, currentMtime) ==
    LET key == ContentNormalizePath(filePath) IN
    IF MapHas(cache, key)
    THEN LET memoryEntry == MapGet(cache, key) IN
         IF memoryEntry.mtime # currentMtime
         THEN [cache |-> MapDelete(cache, key),
               db |-> PersistentDelete(db, open, key),
               result |-> Absent]
         ELSE [cache |-> MapSet(MapDelete(cache, key), key, memoryEntry),
               db |-> db,
               result |-> Some(memoryEntry.content)]
    ELSE LET got == PersistentGetWithMtime(db, open, key, currentMtime) IN
         IF got.value # Absent
         THEN [cache |-> ContentSetInMemory(cache, maxSize, key, got.value[1]),
               db |-> got.db,
               result |-> Some(got.value[1].content)]
         ELSE [cache |-> cache, db |-> got.db, result |-> Absent]

\* mutant: a key dropped from memory at capacity loses its row as well
ContentSet_EvictsRows(cache, db, open, maxSize, filePath, content, mtime, t) ==
    LET key == ContentNormalizePath(filePath)
        entry == [content |-> content, mtime |-> mtime]
        memory == ContentSetInMemory(cache, maxSize, key, entry)
    IN  [cache |-> memory,
         db |-> LET written == PersistentSet(db, open, key, entry, Some(mtime), t)
                IN  [k \in (DOMAIN written) \ (MapKeys(cache) \ MapKeys(memory)) |->
                        written[k]]]

\* set(filePath, content, mtime): [cache, db]
ContentSet(cache, db, open, maxSize, filePath, content, mtime, t) ==
    LET key == ContentNormalizePath(filePath)
        entry == [content |-> content, mtime |-> mtime]
    IN  [cache |-> ContentSetInMemory(cache, maxSize, key, entry),
         db |-> PersistentSet(db, open, key, entry, Some(mtime), t)]

ContentInvalidate(cache, db, open, filePath) ==
    LET key == ContentNormalizePath(filePath)
    IN  [cache |-> MapDelete(cache, key), db |-> PersistentDelete(db, open, key)]

ContentClear(cache, db, open) ==
    [cache |-> << >>, db |-> PersistentClear(db, open)]

ContentHas(cache, db, open, filePath) ==
    LET key == ContentNormalizePath(filePath)
    IN  MapHas(cache, key) \/ PersistentHas(db, open, key)

\* ------------------------------------------------------------------------
\* FileListCache
\* ------------------------------------------------------------------------
Folders == { "", "Notes", "notes/", "notes/sub" }

FileLists == { << "x.md" >>, << "notes/y.md", "x.md" >> }

\* folder.replace(/\\/g,'/').replace(/\/+$/,'').toLowerCase() on the folders of the model
NormalizeFolder(f) == IF f \in { "Notes", "notes/" } THEN "notes" ELSE f

\* the '/'-separated segments of a normalized folder key
FolderSegments(k) ==
    CASE k = "" -> << >>
      [] k = "notes" -> << "notes" >>
      [] k = "notes/sub" -> << "notes", "sub" >>
      [] OTHER -> << k >>

IsSegmentPrefix(a, b) == Len(a) < Len(b) /\ SubSeq(b, 1, Len(a)) = a

\* folder1 === '' || folder2 === '' || one starts with the other + '/'
IsRelatedFolder(folder1, folder2) ==
    \/ folder1 = ""
    \/ folder2 = ""
    \/ IsSegmentPrefix(FolderSegments(folder2), FolderSegments(folder1))
    \/ IsSegmentPrefix(FolderSegments(folder1), FolderSegments(folder2))

\* (Date.now() - entry.timestamp) < ttl
IsEntryValid(entry, ttl, t) == (t - entry.timestamp) < ttl

FnRemove(f, keys) == [k \in (DOMAIN f) \ keys |-> f[k]]

FnPut(f, key, v) == [k \in (DOMAIN f) \cup {key} |-> IF k = key THEN v ELSE f[k]]

\* get(folder): [cache, db, result]
FileListGet(cache, db, open, ttl, folder, t) ==
    LET key == NormalizeFolder(folder)
        inMemory == key \in DOMAIN cache
    IN  IF inMemory /\ IsEntryValid(cache[key], ttl, t)
        THEN [cache |-> cache, db |-> db, result |-> Some(cache[key].files)]
        ELSE LET got == PersistentGetWithTtl(db, open, key, ttl, t) IN
             IF got.value # Absent
             THEN [cache |-> FnPut(cache, key, got.value[1]),
                   db |-> got.db,
                   result |-> Some(got.value[1].files)]
             ELSE [cache |-> FnRemove(cache, {key}), db |-> got.db, result |-> Absent]

\* set(folder, files): [cache, db]
FileListSet(cache, db, open, folder, files, t) ==
    LET key == NormalizeFolder(folder)
        entry == [files |-> files, timestamp |-> t]
    IN  [cache |-> FnPut(cache, key, entry),
         db |-> PersistentSet(db, open, key, entry, Absent, t)]

\* invalidate(): everything
FileListInvalidateAll(cache, db, open) ==
    [cache |-> EmptyDb, db |-> PersistentClear(db, open)]

\* invalidate(folder): the folder, then every folder still in memory related to it
FileListInvalidate(cache, db, open, folder) ==
    LET key == NormalizeFolder(folder)
        first == FnRemove(cache, {key})
        related == { c \in DOMAIN first : IsRelatedFolder(c, key) }
    IN  [cache |-> FnRemove(first, related),
         db |-> [k \in (DOMAIN db) \ (IF open THEN {key} \cup related ELSE {}) |-> db[k]]]

\* ------------------------------------------------------------------------
\* SearchResultCache
\* ------------------------------------------------------------------------
\* Strings that are taken apart or concatenated are sequences of characters.
Digit(n) == << "0", "1", "2", "3", "4", "5", "6", "7", "8", "9" >>[n + 1]

RECURSIVE NumStr(_)
NumStr(n) == IF n < 10 THEN << Digit(n) >> ELSE NumStr(n \div 10) \o << Digit(n % 10) >>

\* `${x}` of a score given in tenths
TenthsStr(x) ==
    IF x % 10 = 0 THEN NumStr(x \div 10)
    ELSE NumStr(x \div 10) \o << "." >> \o << Digit(x % 10) >>

RECURSIVE Join(_, _)
Join(parts, sep) ==
    IF Len(parts) = 0 THEN << >>
    ELSE IF Len(parts) = 1 THEN parts[1]
    ELSE parts[1] \o sep \o Join(Tail(parts), sep)

Quoted(s) == << "\"" >> \o s \o << "\"" >>

\* JSON.stringify of a flat object given as its entries in insertion order
RECURSIVE JsonEntries(_)
JsonEntries(pairs) ==
    IF Len(pairs) = 0 THEN << >>
    ELSE << Quoted(pairs[1].k) \o << ":" >> \o Quoted(pairs[1].v) >> \o JsonEntries(Tail(pairs))

JsonObject(pairs) == << "{" >> \o Join(JsonEntries(pairs), << "," >>) \o << "}" >>

NoOptions ==
    [query |-> Absent, glob |-> Absent, regex |-> Absent, limit |-> Absent,
     offset |-> Absent, minScore |-> Absent, tags |-> Absent, frontmatter |-> Absent]

\* a string option is skipped when undefined or empty (falsy)
Truthy(opt) == opt # Absent /\ opt[1] # << >>

GenerateKey(options) ==
    LET parts ==
            (IF Truthy(options.query) THEN << << "q", ":" >> \o options.query[1] >> ELSE << >>)
         \o (IF Truthy(options.glob) THEN << << "g", ":" >> \o options.glob[1] >> ELSE << >>)
         \o (IF Truthy(options.regex) THEN << << "r", ":" >> \o options.regex[1] >> ELSE << >>)
         \o (IF options.limit # Absent
             THEN << << "l", ":" >> \o NumStr(options.limit[1]) >> ELSE << >>)
         \o (IF options.offset # Absent
             THEN << << "o", ":" >> \o NumStr(options.offset[1]) >> ELSE << >>)
         \o (IF options.minScore # Absent
             THEN << << "s", ":" >> \o TenthsStr(options.minScore[1]) >> ELSE << >>)
         \o (IF options.tags # Absent
             THEN << << "t", ":" >> \o Join(options.tags[1], << "," >>) >> ELSE << >>)
         \o (IF options.frontmatter # Absent
             THEN << << "f", ":" >> \o JsonObject(options.frontmatter[1]) >> ELSE << >>)
    IN  Join(parts, << "|" >>)

\* Search options and result lists of the model
WithQuery(q) == [NoOptions EXCEPT !.query = Some(q)]

SearchOptionSets ==
    { WithQuery(<< "a" >>),
      [WithQuery(<< "a" >>) EXCEPT !.limit = Some(5)],
      [NoOptions EXCEPT !.glob = Some(<< "*" >>)] }

Pair(k, v) == [k |-> k, v |-> v]

\* option sets whose keys are compared with each other: no option, a query, a query
\* that reads like a query followed by a glob, that query and glob,
\* a regex, a limit, an offset, a minimum score of 0.5, one tag "a,b", the tags "a"
\* and "b", and the frontmatter {a: "1", b: "2"} built in either order
KeyOptionSets ==
    { NoOptions,
      WithQuery(<< "a" >>),
      WithQuery(<< "a", "|", "g", ":", "b" >>),
      [WithQuery(<< "a" >>) EXCEPT !.glob = Some(<< "b" >>)],
      [NoOptions EXCEPT !.regex = Some(<< "a" >>)],
      [NoOptions EXCEPT !.limit = Some(5)],
      [NoOptions EXCEPT !.offset = Some(5)],
      [NoOptions EXCEPT !.minScore = Some(5)],
      [NoOptions EXCEPT !.tags = Some(<< << "a", ",", "b" >> >>)],
      [NoOptions EXCEPT !.tags = Some(<< << "a" >>, << "b" >> >>)],
      [NoOptions EXCEPT !.frontmatter =
          Some(<< Pair(<< "a" >>, << "1" >>), Pair(<< "b" >>, << "2" >>) >>)],
      [NoOptions EXCEPT !.frontmatter =
          Some(<< Pair(<< "b" >>, << "2" >>), Pair(<< "a" >>, << "1" >>) >>)] }

\* the key of each option set of the model
\* the searches run on a vault: the text "cat", the glob "*.md", both, the
\* tag "t", and an empty list of tags
VaultOptionSets ==
    { WithQuery(<< "c", "a", "t" >>),
      [NoOptions EXCEPT !.glob = Some(<< "*", ".", "m", "d" >>)],
      [WithQuery(<< "c", "a", "t" >>) EXCEPT !.glob = Some(<< "*", ".", "m", "d" >>)],
      [NoOptions EXCEPT !.tags = Some(<< << "t" >> >>)],
      [NoOptions EXCEPT !.tags = Some(<< >>)] }

KeyOf ==
    [o \in SearchOptionSets \cup KeyOptionSets \cup VaultOptionSets |-> GenerateKey(o)]

SmallResults == << [path |-> "a.md", score |-> 7, matches |-> << [line |-> 1] >>] >>

LargeResults ==
    << [path |-> "a.md", score |-> 9, matches |-> << [line |-> 1], [line |-> 4] >>],
       [path |-> "c.md", score |-> 3, matches |-> << [line |-> 2] >>] >>

ResultLists == { SmallResults, LargeResults }

\* Buffer.byteLength(JSON.stringify(results)): brackets, and per result its fixed
\* text plus the text of each match
RECURSIVE JsonSize(_)
JsonSize(results) ==
    IF Len(results) = 0 THEN 2
    ELSE 40 + 12 * Len(results[1].matches) + JsonSize(Tail(results))

\* zlib.deflateSync(json).toString('base64'), and the size of that text
Deflate(results) == [kind |-> "deflate", body |-> results]

DeflatedSize(results) == 30 + (JsonSize(results) \div 2)

Raw(results) == [kind |-> "raw", body |-> results]

\* a text that is not the deflate stream of anything
Garbage == [kind |-> "garbage", body |-> << >>]

\* JSON.parse(zlib.inflateSync(Buffer.from(text, 'base64'))): [threw, value]
Inflate(blob) ==
    IF blob.kind = "deflate" THEN [threw |-> FALSE, value |-> blob.body]
    ELSE [threw |-> TRUE, value |-> << >>]

\* results.map(r => ({...r, matches: r.matches.map(m => ({...m}))}))
DeepCopyResults(results) ==
    [i \in 1..Len(results) |->
        [results[i] EXCEPT !.matches = [j \in 1..Len(results[i].matches) |-> results[i].matches[j]]]]

\* maybeCompress(results): [data, isCompressed, originalSize]
MaybeCompress(results, enableCompression, threshold) ==
    LET originalSize == JsonSize(results) IN
    IF ~enableCompression \/ originalSize < threshold
    THEN [data |-> Raw(results), isCompressed |-> FALSE, originalSize |-> originalSize]
    ELSE IF DeflatedSize(results) < originalSize
         THEN [data |-> Deflate(results), isCompressed |-> TRUE, originalSize |-> originalSize]
         ELSE [data |-> Raw(results), isCompressed |-> FALSE, originalSize |-> originalSize]

\* maybeDecompress(entry)
MaybeDecompress(entry) ==
    IF ~entry.isCompressed \/ entry.results.kind = "raw"
    THEN entry.results.body
    ELSE LET inflated == Inflate(entry.results) IN
         IF inflated.threw THEN << >> ELSE inflated.value

SearchSetInMemory(cache, maxSize, key, entry) ==
    LET removed == IF MapHas(cache, key) THEN MapDelete(cache, key) ELSE cache
    IN  MapSet(EvictOldest(removed, maxSize), key, entry)

\* mutant: a memory hit is served without moving the key to the recent end
SearchGet_NoPromote(cache, db, open, cfg, options, t) ==
    LET key == KeyOf[options] IN
    IF MapHas(cache, key)
    THEN LET memoryEntry == MapGet(cache, key) IN
         IF t - memoryEntry.timestamp > cfg.ttl
         THEN [cache |-> MapDelete(cache, key),
               db |-> PersistentDelete(db, open, key),
               result |-> Absent]
         ELSE [cache |-> cache,
               db |-> db,
               result |-> Some(DeepCopyResults(MaybeDecompress(memoryEntry)))]
    ELSE LET got == PersistentGetWithTtl(db, open, key, cfg.ttl, t) IN
         IF got.value # Absent
         THEN [cache |-> SearchSetInMemory(cache, cfg.maxSize, key, got.value[1]),
               db |-> got.db,
               result |-> Some(DeepCopyResults(MaybeDecompress(got.value[1])))]
         ELSE [cache |-> cache, db |-> got.db, result |-> Absent]

\* get(options): [cache, db, result]
SearchGet(cache, db, open, cfg, options, t) ==
    LET key == KeyOf[options] IN
    IF MapHas(cache, key)
    THEN LET memoryEntry == MapGet(cache, key) IN
         IF t - memoryEntry.timestamp > cfg.ttl
         THEN [cache |-> MapDelete(cache, key),
               db |-> PersistentDelete(db, open, key),
               result |-> Absent]
         ELSE [cache |-> MapSet(MapDelete(cache, key), key, memoryEntry),
               db |-> db,
               result |-> Some(DeepCopyResults(MaybeDecompress(memoryEntry)))]
    ELSE LET got == PersistentGetWithTtl(db, open, key, cfg.ttl, t) IN
         IF got.value # Absent
         THEN [cache |-> SearchSetInMemory(cache, cfg.maxSize, key, got.value[1]),
               db |-> got.db,
               result |-> Some(DeepCopyResults(MaybeDecompress(got.value[1])))]
         ELSE [cache |-> cache, db |-> got.db, result |-> Absent]

\* set(options, results): [cache, db]
SearchSet(cache, db, open, cfg, options, results, t) ==
    LET key == KeyOf[options]
        packed == MaybeCompress(DeepCopyResults(results), cfg.enableCompression,
                                cfg.compressionThreshold)
        entry == [results |-> packed.data, timestamp |-> t,
                  isCompressed |-> packed.isCompressed,
                  originalSize |-> packed.originalSize]
    IN  [cache |-> SearchSetInMemory(cache, cfg.maxSize, key, entry),
         db |-> PersistentSet(db, open, key, entry, Absent, t)]

\* mutant: the store partition keeps its rows
SearchInvalidate_MemoryOnly(cache, db, open) == [cache |-> << >>, db |-> db]

\* invalidate()
SearchInvalidate(cache, db, open) ==
    [cache |-> << >>, db |-> PersistentClear(db, open)]

\* ------------------------------------------------------------------------
\* SearchResultCache: the objects behind a result list
\* ------------------------------------------------------------------------
\* A heap is a sequence of objects and a reference is an index into it. A result list
\* and the matches of a result are arrays [items], a result is [path, score, matches]
\* with matches a reference to an array, a match is [line].
Array(items) == [items |-> items]

\* r.matches.map(m => ({...m})): [heap, refs]
RECURSIVE CopyMatches(_, _)
CopyMatches(heap, refs) ==
    IF Len(refs) = 0 THEN [heap |-> heap, refs |-> << >>]
    ELSE LET copied == Append(heap, heap[refs[1]])
             rest == CopyMatches(copied, Tail(refs))
         IN  [heap |-> rest.heap, refs |-> << Len(copied) >> \o rest.refs]

\* mutant: results.map(r => ({...r})), the copies share the arrays of matches
RECURSIVE CopyResults_SharesMatches(_, _)
CopyResults_SharesMatches(heap, refs) ==
    IF Len(refs) = 0 THEN [heap |-> heap, refs |-> << >>]
    ELSE LET copied == Append(heap, heap[refs[1]])
             rest == CopyResults_SharesMatches(copied, Tail(refs))
         IN  [heap |-> rest.heap, refs |-> << Len(copied) >> \o rest.refs]

\* results.map(r => ({...r, matches: r.matches.map(m => ({...m}))})): [heap, refs]
RECURSIVE CopyResults(_, _)
CopyResults(heap, refs) ==
    IF Len(refs) = 0 THEN [heap |-> heap, refs |-> << >>]
    ELSE LET r == heap[refs[1]]
             ms == CopyMatches(heap, heap[r.matches].items)
             withMatches == Append(ms.heap, Array(ms.refs))
             copied == Append(withMatches, [r EXCEPT !.matches = Len(withMatches)])
             rest == CopyResults(copied, Tail(refs))
         IN  [heap |-> rest.heap, refs |-> << Len(copied) >> \o rest.refs]

\* deepCopyResults(results) on the array at `list`: [heap, ref]
DeepCopyResultsAt(heap, list) ==
    LET c == CopyResults(heap, heap[list].items)
        h == Append(c.heap, Array(c.refs))
    IN  [heap |-> h, ref |-> Len(h)]

\* set(options, results) without compression: the entry holds a copy of the array
SearchSetAt(heap, list) == DeepCopyResultsAt(heap, list)

\* get(options) on an entry in memory without compression: maybeDecompress returns
\* entry.results itself, and the caller gets a copy of it
SearchGetAt(heap, entry) == DeepCopyResultsAt(heap, entry)

\* the objects a holder of the array at `list` can reach
ReachableFrom(heap, list) ==
    LET results == SeqToSet(heap[list].items)
        arrays == { heap[r].matches : r \in results }
    IN  { list } \cup results \cup arrays
            \cup UNION { SeqToSet(heap[a].items) : a \in arrays }

\* the value of the result list at `list`, as JSON.stringify would write it
ResultListAt(heap, list) ==
    [i \in 1..Len(heap[list].items) |->
        LET r == heap[heap[list].items[i]] IN
        [path |-> r.path, score |-> r.score,
         matches |-> [j \in 1..Len(heap[r.matches].items) |->
                        heap[heap[r.matches].items[j]]]]]

\* what a caller can do to an object it holds: drop the last element of an array,
\* overwrite the score of a result, overwrite the line of a match
Mutated(object) ==
    IF "items" \in DOMAIN object THEN [object EXCEPT !.items = SubSeq(@, 1, Len(@) - 1)]
    ELSE IF "score" \in DOMAIN object THEN [object EXCEPT !.score = 0]
    ELSE [object EXCEPT !.line = 0]

\* ------------------------------------------------------------------------
\* LmdbEnvironmentManager: the environment the partitions share
\* ------------------------------------------------------------------------
\* The manager as a value: [rootDb, databases, dbPath, refCount]; rootDb is absent or
\* the path of the open environment, databases the names of the opened partitions.
\* A database handle is [path, name]: the environment it was opened in, and its name.
EmptyEnv == [rootDb |-> Absent, databases |-> { }, dbPath |-> "", refCount |-> 0]

\* the places where openDatabase can fail: creating the directory, opening the
\* environment, opening the named database
OpenFailures == { "none", "mkdir", "open", "openDB" }

\* openDatabase(options): [env, db, closed]; db is absent when the method returns
\* null, closed tells whether it closed the environment that was open
OpenDatabase(env, dbPath, dbName, fail) ==
    IF fail = "mkdir" THEN [env |-> env, db |-> Absent, closed |-> FALSE]
    ELSE LET reopen == env.rootDb = Absent \/ env.dbPath # dbPath
             closes == env.rootDb # Absent /\ env.dbPath # dbPath
             closed == IF closes THEN [env EXCEPT !.rootDb = Absent, !.databases = { }]
                       ELSE env
             pathSet == [closed EXCEPT !.dbPath = dbPath]
             rooted == IF reopen THEN [pathSet EXCEPT !.rootDb = Some(dbPath)] ELSE env
         IN  IF reopen /\ fail = "open"
             THEN [env |-> pathSet, db |-> Absent, closed |-> closes]
             ELSE IF dbName \in rooted.databases
             THEN [env |-> [rooted EXCEPT !.refCount = @ + 1],
                   db |-> Some([path |-> dbPath, name |-> dbName]), closed |-> closes]
             ELSE IF fail = "openDB"
             THEN [env |-> rooted, db |-> Absent, closed |-> closes]
             ELSE [env |-> [rooted EXCEPT !.databases = @ \cup { dbName },
                                          !.refCount = @ + 1],
                   db |-> Some([path |-> dbPath, name |-> dbName]), closed |-> closes]

\* closeDatabase(dbName)
CloseDatabase(env, dbName) == [env EXCEPT !.refCount = @ - 1]

\* closeAll(): the environment is closed if it was open, and the singleton is reset
CloseAll(env) == EmptyEnv

EnvIsOpen(env) == env.rootDb # Absent

\* new PersistentCache(options): [env, cache, closed]; cache is [dbName, db, enabled]
NewPersistentCache(env, dbPath, dbName, fail) ==
    LET opened == OpenDatabase(env, dbPath, dbName, fail)
    IN  [env |-> opened.env,
         cache |-> [dbName |-> dbName, db |-> opened.db, enabled |-> opened.db # Absent],
         closed |-> opened.closed]

\* ------------------------------------------------------------------------
\* InvertedIndex
\* ------------------------------------------------------------------------
\* Texts are sequences of characters.
UpperCase ==
    << "A", "B", "C", "D", "E", "F", "G", "H", "I", "J", "K", "L", "M",
       "N", "O", "P", "Q", "R", "S", "T", "U", "V", "W", "X", "Y", "Z" >>

LowerCase ==
    << "a", "b", "c", "d", "e", "f", "g", "h", "i", "j", "k", "l", "m",
       "n", "o", "p", "q", "r", "s", "t", "u", "v", "w", "x", "y", "z" >>

Digits == { "0", "1", "2", "3", "4", "5", "6", "7", "8", "9" }

\* String.prototype.toLowerCase
LowerChar(c) ==
    IF \E i \in 1..Len(UpperCase) : UpperCase[i] = c
    THEN LowerCase[CHOOSE i \in 1..Len(UpperCase) : UpperCase[i] = c]
    ELSE c

ToLowerCase(s) == [i \in 1..Len(s) |-> LowerChar(s[i])]

\* a character the class [\s\W] does not match: a letter, a digit or '_'
IsWordChar(c) == c \in SeqToSet(UpperCase) \cup SeqToSet(LowerCase) \cup Digits \cup { "_" }

\* s.split(/[\s\W]+/): the pieces between the runs of separators, the empty piece
\* before a leading run and after a trailing one included
RECURSIVE SplitWords(_, _, _, _)
SplitWords(s, i, cur, inRun) ==
    IF i > Len(s) THEN << cur >>
    ELSE IF IsWordChar(s[i]) THEN SplitWords(s, i + 1, Append(cur, s[i]), FALSE)
    ELSE IF inRun THEN SplitWords(s, i + 1, cur, TRUE)
    ELSE << cur >> \o SplitWords(s, i + 1, << >>, TRUE)

DEFAULT_STOP_WORDS ==
    { <<"t","h","e">>, <<"a">>, <<"a","n">>, <<"a","n","d">>, <<"o","r">>, <<"b","u","t">>,
      <<"i","n">>, <<"o","n">>, <<"a","t">>, <<"t","o">>, <<"f","o","r">>, <<"o","f">>,
      <<"w","i","t","h">>, <<"b","y">>, <<"f","r","o","m">>, <<"a","s">>, <<"i","s">>,
      <<"w","a","s">>, <<"a","r","e">>, <<"w","e","r","e">>, <<"b","e","e","n">>, <<"b","e">>,
      <<"h","a","v","e">>, <<"h","a","s">>, <<"h","a","d">>, <<"d","o">>, <<"d","o","e","s">>,
      <<"d","i","d">>, <<"w","i","l","l">>, <<"w","o","u","l","d">>, <<"c","o","u","l","d">>,
      <<"s","h","o","u","l","d">>, <<"m","a","y">>, <<"m","i","g","h","t">>,
      <<"m","u","s","t">>, <<"s","h","a","l","l">>, <<"c","a","n">>, <<"n","e","e","d">>,
      <<"d","a","r","e">>, <<"o","u","g","h","t">>, <<"u","s","e","d">>, <<"i","t">>,
      <<"i","t","s">>, <<"t","h","i","s">>, <<"t","h","a","t">>, <<"t","h","e","s","e">>,
      <<"t","h","o","s","e">>, <<"i">>, <<"y","o","u">>, <<"h","e">>, <<"s","h","e">>,
      <<"w","e">>, <<"t","h","e","y">>, <<"w","h","a","t">>, <<"w","h","i","c","h">>,
      <<"w","h","o">>, <<"w","h","o","m">>, <<"w","h","o","s","e">>, <<"w","h","e","r","e">>,
      <<"w","h","e","n">>, <<"w","h","y">>, <<"h","o","w">>, <<"a","l","l">>,
      <<"e","a","c","h">>, <<"e","v","e","r","y">>, <<"b","o","t","h">>, <<"f","e","w">>,
      <<"m","o","r","e">>, <<"m","o","s","t">>, <<"o","t","h","e","r">>, <<"s","o","m","e">>,
      <<"s","u","c","h">>, <<"n","o">>, <<"n","o","r">>, <<"n","o","t">>, <<"o","n","l","y">>,
      <<"o","w","n">>, <<"s","a","m","e">>, <<"s","o">>, <<"t","h","a","n">>, <<"t","o","o">>,
      <<"v","e","r","y">>, <<"j","u","s","t">>, <<"a","l","s","o">>, <<"n","o","w">>,
      <<"h","e","r","e">> }

MinWordLength == 3

DefaultMaxWordsPerFile == 10000

\* the loop of extractWords from raw word i on: count counts every kept raw word
RECURSIVE ExtractFrom(_, _, _, _, _)
ExtractFrom(rawWords, i, words, count, options) ==
    IF i > Len(rawWords) THEN words
    ELSE IF Len(rawWords[i]) < options.minWordLength
         THEN ExtractFrom(rawWords, i + 1, words, count, options)
    ELSE IF rawWords[i] \in options.stopWords
         THEN ExtractFrom(rawWords, i + 1, words, count, options)
    ELSE IF count + 1 >= options.maxWordsPerFile
         THEN words \cup { rawWords[i] }
    ELSE ExtractFrom(rawWords, i + 1, words \cup { rawWords[i] }, count + 1, options)

ExtractWords(content, options) ==
    ExtractFrom(SplitWords(ToLowerCase(content), 1, << >>, FALSE), 1, { }, 0, options)

\* filePath.replace(/\\/g, '/')
IndexNormalizePath(filePath) ==
    [i \in 1..Len(filePath) |-> IF filePath[i] = "\\" THEN "/" ELSE filePath[i]]

\* the index as a value: [enabled, wordToFiles, fileToWords], each map a function
\* whose domain is the set of its keys
IndexClear(ix) == [ix EXCEPT !.wordToFiles = EmptyDb, !.fileToWords = EmptyDb]

IndexSetEnabled(ix, on) ==
    IF on THEN [ix EXCEPT !.enabled = TRUE]
    ELSE IndexClear([ix EXCEPT !.enabled = FALSE])

\* mutant: the file's word set is dropped, the words keep listing the file
IndexInvalidate_KeepsWordEntries(ix, filePath) ==
    LET normalizedPath == IndexNormalizePath(filePath) IN
    IF normalizedPath \notin DOMAIN ix.fileToWords THEN ix
    ELSE [ix EXCEPT !.fileToWords = FnRemove(ix.fileToWords, { normalizedPath })]

IndexInvalidate(ix, filePath) ==
    LET normalizedPath == IndexNormalizePath(filePath) IN
    IF normalizedPath \notin DOMAIN ix.fileToWords THEN ix
    ELSE LET words == ix.fileToWords[normalizedPath]
             files(w) == IF w \in words THEN ix.wordToFiles[w] \ { normalizedPath }
                         ELSE ix.wordToFiles[w]
             kept == { w \in DOMAIN ix.wordToFiles : files(w) # { } }
         IN  [ix EXCEPT !.wordToFiles = [w \in kept |-> files(w)],
                        !.fileToWords = FnRemove(ix.fileToWords, { normalizedPath })]

\* mutant: a file that is already indexed is only removed
IndexContent_RemovesIndexed(ix, options, filePath, content) ==
    IF ~ix.enabled \/ content = << >> THEN ix
    ELSE IF IndexNormalizePath(filePath) \in DOMAIN ix.fileToWords
         THEN IndexInvalidate(ix, filePath)
    ELSE LET normalizedPath == IndexNormalizePath(filePath)
             words == ExtractWords(content, options)
         IN  [ix EXCEPT
                !.fileToWords = FnPut(ix.fileToWords, normalizedPath, words),
                !.wordToFiles =
                    [w \in (DOMAIN ix.wordToFiles) \cup words |->
                        IF w \in words
                        THEN (IF w \in DOMAIN ix.wordToFiles THEN ix.wordToFiles[w] ELSE { })
                                 \cup { normalizedPath }
                        ELSE ix.wordToFiles[w]]]

IndexContent(ix, options, filePath, content) ==
    IF ~ix.enabled \/ content = << >> THEN ix
    ELSE LET normalizedPath == IndexNormalizePath(filePath)
             removed == IndexInvalidate(ix, filePath)
             words == ExtractWords(content, options)
         IN  [removed EXCEPT
                !.fileToWords = FnPut(removed.fileToWords, normalizedPath, words),
                !.wordToFiles =
                    [w \in (DOMAIN removed.wordToFiles) \cup words |->
                        IF w \in words
                        THEN (IF w \in DOMAIN removed.wordToFiles
                              THEN removed.wordToFiles[w] ELSE { })
                                 \cup { normalizedPath }
                        ELSE removed.wordToFiles[w]]]

\* ------------------------------------------------------------------------
\* FileWatcher
\* ------------------------------------------------------------------------
\* The watcher as a value: [watcher, isWatching, onChangeCallback, debounceTimer,
\* pendingChanges].  watcher is "null", "open" or "closing" (close() called and not
\* yet resolved).  onChangeCallback is whether a callback is set; the callback is
\* the one FileSystemService.startFileWatcher passes, which returns normally.
\* debounceTimer is the scheduled timeout, as the time left until it is due.
\* pendingChanges is the Map of [eventType, filePath]; PendingChange.timestamp and
\* changesProcessed are written and never read by the watcher, and left out.
EndsWith(s, suffix) ==
    /\ Len(s) >= Len(suffix)
    /\ SubSeq(s, Len(s) - Len(suffix) + 1, Len(s)) = suffix

\* path.relative(vaultPath, filePath) for a path below the vault
PathRelative(vaultPath, filePath) ==
    IF Len(filePath) > Len(vaultPath) + 1
       /\ SubSeq(filePath, 1, Len(vaultPath) + 1) = vaultPath \o << "/" >>
    THEN SubSeq(filePath, Len(vaultPath) + 2, Len(filePath))
    ELSE filePath

\* mutant: a pending add absorbs every later event
CoalesceEventType_AddAbsorbs(existing, incoming) ==
    IF existing = Absent THEN incoming
    ELSE IF existing[1] = "add" THEN "add"
    ELSE incoming

\* coalesceEventType(existing, incoming); existing is absent or the pending kind
\* a coalescing that takes an add after an unlink as a new file
CoalesceEventType_RecreateIsAdd(existing, incoming) ==
    IF existing = Absent THEN incoming
    ELSE IF existing[1] = "add" /\ incoming = "change" THEN "add"
    ELSE incoming

CoalesceEventType(existing, incoming) ==
    IF existing = Absent THEN incoming
    ELSE IF existing[1] = "add" /\ incoming = "change" THEN "add"
    ELSE IF incoming = "unlink" \/ incoming = "unlinkDir" THEN incoming
    ELSE IF existing[1] = "unlink" /\ incoming = "add" THEN "change"
    ELSE incoming

\* mutant: every event is added to the pending changes under a key of its own
HandleChange_Appends(w, delay, vaultPath, eventType, filePath) ==
    IF eventType # "addDir" /\ eventType # "unlinkDir" /\ ~EndsWith(filePath, << ".", "m", "d" >>)
    THEN w
    ELSE [w EXCEPT
            !.pendingChanges =
                Append(@, [key |-> << PathRelative(vaultPath, filePath), Len(@) >>,
                           val |-> [eventType |-> eventType,
                                    filePath |-> PathRelative(vaultPath, filePath)]]),
            !.debounceTimer = Some(delay)]

\* mutant: a timer that is already scheduled is left as it is
HandleChange_KeepsTimer(w, delay, vaultPath, eventType, filePath) ==
    IF eventType # "addDir" /\ eventType # "unlinkDir" /\ ~EndsWith(filePath, << ".", "m", "d" >>)
    THEN w
    ELSE LET relativePath == PathRelative(vaultPath, filePath)
             existing == IF MapHas(w.pendingChanges, relativePath)
                         THEN Some(MapGet(w.pendingChanges, relativePath).eventType)
                         ELSE Absent
             newChange == [eventType |-> CoalesceEventType(existing, eventType),
                           filePath |-> relativePath]
         IN  [w EXCEPT
                !.pendingChanges = MapSet(@, relativePath, newChange),
                !.debounceTimer = IF @ # Absent THEN @ ELSE Some(delay)]

HandleChange(w, delay, vaultPath, eventType, filePath) ==
    IF eventType # "addDir" /\ eventType # "unlinkDir" /\ ~EndsWith(filePath, << ".", "m", "d" >>)
    THEN w
    ELSE LET relativePath == PathRelative(vaultPath, filePath)
             existing == IF MapHas(w.pendingChanges, relativePath)
                         THEN Some(MapGet(w.pendingChanges, relativePath).eventType)
                         ELSE Absent
             newChange == [eventType |-> CoalesceEventType(existing, eventType),
                           filePath |-> relativePath]
         IN  [w EXCEPT
                !.pendingChanges = MapSet(@, relativePath, newChange),
                !.debounceTimer = Some(delay)]

\* processPendingChanges(): [w, delivered], delivered the callback's invocations in order
\* a flush that forgets to clear the map
ProcessPendingChanges_KeepsMap(w) ==
    IF ~w.onChangeCallback \/ Len(w.pendingChanges) = 0
    THEN [w |-> w, delivered |-> << >>]
    ELSE [w |-> w,
          delivered |-> [i \in 1..Len(w.pendingChanges) |-> w.pendingChanges[i].val]]

ProcessPendingChanges(w) ==
    IF ~w.onChangeCallback \/ Len(w.pendingChanges) = 0
    THEN [w |-> w, delivered |-> << >>]
    ELSE [w |-> [w EXCEPT !.pendingChanges = << >>],
          delivered |-> [i \in 1..Len(w.pendingChanges) |-> w.pendingChanges[i].val]]

\* start(onChange)
\* processPendingChanges with a callback that throws at its throwAt-th invocation
\* (0: it never throws): the loop ends there and the clear() is not reached
ProcessPendingChangesUntil(w, throwAt) ==
    IF ~w.onChangeCallback \/ Len(w.pendingChanges) = 0
    THEN [w |-> w, delivered |-> << >>, threw |-> FALSE]
    ELSE IF throwAt \in 1..Len(w.pendingChanges)
    THEN [w |-> w,
          delivered |-> [i \in 1..throwAt |-> w.pendingChanges[i].val],
          threw |-> TRUE]
    ELSE [w |-> [w EXCEPT !.pendingChanges = << >>],
          delivered |-> [i \in 1..Len(w.pendingChanges) |-> w.pendingChanges[i].val],
          threw |-> FALSE]

\* stop() with such a callback: the exception leaves stop() before close()
StopUntilCloseUntil(w, throwAt) ==
    LET cleared == [w EXCEPT !.debounceTimer = Absent]
        flushed == IF Len(cleared.pendingChanges) > 0
                   THEN ProcessPendingChangesUntil(cleared, throwAt)
                   ELSE [w |-> cleared, delivered |-> << >>, threw |-> FALSE]
    IN  [w |-> IF ~flushed.threw /\ flushed.w.watcher # "null"
               THEN [flushed.w EXCEPT !.watcher = "closing"]
               ELSE flushed.w,
         delivered |-> flushed.delivered,
         threw |-> flushed.threw,
         subscription |-> flushed.w.watcher]

StartWatcher(w) ==
    IF w.isWatching THEN w
    ELSE [w EXCEPT !.onChangeCallback = TRUE, !.watcher = "open"]

\* mutant: the pending changes are discarded
StopUntilClose_DropsPending(w) ==
    LET cleared == [w EXCEPT !.debounceTimer = Absent, !.pendingChanges = << >>]
    IN  [w |-> IF cleared.watcher # "null" THEN [cleared EXCEPT !.watcher = "closing"]
               ELSE cleared,
         delivered |-> << >>,
         subscription |-> cleared.watcher]

\* stop() up to its await: [w, delivered, subscription], subscription the state of
\* the chokidar watcher when the pending changes were delivered
StopUntilClose(w) ==
    LET cleared == [w EXCEPT !.debounceTimer = Absent]
        flushed == IF Len(cleared.pendingChanges) > 0
                   THEN ProcessPendingChanges(cleared)
                   ELSE [w |-> cleared, delivered |-> << >>]
    IN  [w |-> IF flushed.w.watcher # "null" THEN [flushed.w EXCEPT !.watcher = "closing"]
               ELSE flushed.w,
         delivered |-> flushed.delivered,
         subscription |-> flushed.w.watcher]

\* stop() after watcher.close() has resolved
StopAfterClose(w) == [w EXCEPT !.watcher = "null", !.isWatching = FALSE]

\* ------------------------------------------------------------------------
\* PathTrie
\* ------------------------------------------------------------------------
\* String.prototype.split(sep): the pieces between the separators, empty ones kept
RECURSIVE SplitAt(_, _, _, _)
SplitAt(s, sep, i, cur) ==
    IF i > Len(s) THEN << cur >>
    ELSE IF s[i] = sep THEN << cur >> \o SplitAt(s, sep, i + 1, << >>)
    ELSE SplitAt(s, sep, i + 1, Append(cur, s[i]))

Split(s, sep) == SplitAt(s, sep, 1, << >>)

TrieNormalizePath(filePath) ==
    [i \in 1..Len(filePath) |-> IF filePath[i] = "\\" THEN "/" ELSE filePath[i]]

\* a node without its children; a node is named by the segments leading to it, and the
\* children of a node are the nodes named by one segment more
CreateNode == [files |-> { }, isDirectory |-> FALSE]

RootNode == << >>

\* the trie as a value: [root, allFiles, fileCount], root the function from the names
\* of the nodes to the nodes
EmptyTrie ==
    [root |-> [n \in { RootNode } |-> CreateNode], allFiles |-> { }, fileCount |-> 0]

TrieChildren(nodes, n) ==
    { k \in DOMAIN nodes : Len(k) = Len(n) + 1 /\ SubSeq(k, 1, Len(n)) = n }

\* insert: the loop over the directory segments; [nodes, at]
RECURSIVE TrieDescend(_, _, _, _)
TrieDescend(nodes, segments, i, at) ==
    IF i > Len(segments) - 1 THEN [nodes |-> nodes, at |-> at]
    ELSE IF segments[i] = << >> THEN TrieDescend(nodes, segments, i + 1, at)
    ELSE LET child == Append(at, segments[i])
             made == IF child \in DOMAIN nodes THEN nodes
                     ELSE FnPut(nodes, child, CreateNode)
         IN  TrieDescend([made EXCEPT ![child].isDirectory = TRUE], segments, i + 1, child)

TrieInsert_KeepsSpelling(t, filePath) ==
    IF filePath = << >> \/ filePath \in t.allFiles THEN t
    ELSE [t EXCEPT !.allFiles = @ \cup { filePath }, !.fileCount = @ + 1]

TrieInsert(t, filePath) ==
    IF filePath = << >> THEN t
    ELSE LET normalizedPath == TrieNormalizePath(filePath) IN
         IF normalizedPath \in t.allFiles THEN t
         ELSE LET segments == Split(normalizedPath, "/")
                  dir == TrieDescend(t.root, segments, 1, RootNode)
                  fileName == segments[Len(segments)]
                  fileNode == Append(dir.at, fileName)
                  made == IF fileNode \in DOMAIN dir.nodes THEN dir.nodes
                          ELSE FnPut(dir.nodes, fileNode, CreateNode)
              IN  [root |-> IF fileName = << >> THEN dir.nodes
                            ELSE [made EXCEPT ![fileNode].files = @ \cup { normalizedPath }],
                   allFiles |-> t.allFiles \cup { normalizedPath },
                   fileCount |-> t.fileCount + 1]

\* remove: the walk to the file's node; [found, nodePath]
RECURSIVE TrieWalk(_, _, _, _)
TrieWalk(nodes, segments, i, nodePath) ==
    IF i > Len(segments) THEN [found |-> TRUE, nodePath |-> nodePath]
    ELSE IF segments[i] = << >> THEN TrieWalk(nodes, segments, i + 1, nodePath)
    ELSE LET child == Append(nodePath[Len(nodePath)], segments[i]) IN
         IF child \notin DOMAIN nodes THEN [found |-> FALSE, nodePath |-> nodePath]
         ELSE TrieWalk(nodes, segments, i + 1, Append(nodePath, child))

\* remove: the clean-up loop from the last segment to the first; nodePath[i] is read
\* with the index of the segment, and reading a child of a missing element throws
RECURSIVE TrieCleanUp(_, _, _, _)
TrieCleanUp(nodes, segments, i, nodePath) ==
    IF i < 1 THEN [nodes |-> nodes, threw |-> FALSE]
    ELSE IF segments[i] = << >> THEN TrieCleanUp(nodes, segments, i - 1, nodePath)
    ELSE IF i > Len(nodePath) THEN [nodes |-> nodes, threw |-> TRUE]
    ELSE LET child == Append(nodePath[i], segments[i]) IN
         IF /\ child \in DOMAIN nodes
            /\ TrieChildren(nodes, child) = { }
            /\ nodes[child].files = { }
         THEN TrieCleanUp(FnRemove(nodes, { child }), segments, i - 1, nodePath)
         ELSE TrieCleanUp(nodes, segments, i - 1, nodePath)

\* remove(filePath): [trie, threw]
TrieRemove(t, filePath) ==
    LET normalizedPath == TrieNormalizePath(filePath) IN
    IF normalizedPath \notin t.allFiles THEN [trie |-> t, threw |-> FALSE]
    ELSE LET segments == Split(normalizedPath, "/")
             counted == [t EXCEPT !.allFiles = @ \ { normalizedPath }, !.fileCount = @ - 1]
             walk == TrieWalk(t.root, segments, 1, << RootNode >>)
             node == walk.nodePath[Len(walk.nodePath)]
             deleted == [t.root EXCEPT ![node].files = @ \ { normalizedPath }]
             clean == TrieCleanUp(deleted, segments, Len(segments), walk.nodePath)
         IN  IF ~walk.found THEN [trie |-> counted, threw |-> FALSE]
             ELSE [trie |-> [counted EXCEPT !.root = clean.nodes], threw |-> clean.threw]

\* collectFiles(node): the files of the node and of the nodes below it
RECURSIVE CollectFiles(_, _)
CollectFiles(nodes, node) ==
    nodes[node].files \cup UNION { CollectFiles(nodes, c) : c \in TrieChildren(nodes, node) }

TrieHas(t, filePath) == TrieNormalizePath(filePath) \in t.allFiles

\* Array.from(allFiles), as the set of its elements
TrieGetAllFiles(t) == t.allFiles

TrieSize(t) == t.fileCount

TrieClear(t) == EmptyTrie

\* ------------------------------------------------------------------------
\* FileSystemService
\* ------------------------------------------------------------------------
\* The service as a value: the three caches (memory and store partition), the inverted
\* index and the path trie it owns. The index and the trie are the ones the default
\* configuration creates (enableInvertedIndex, enablePathTrie).
ListingInvalidated(s, open) ==
    LET r == FileListInvalidateAll(s.listing.cache, s.listing.db, open)
    IN  [s EXCEPT !.listing = [cache |-> r.cache, db |-> r.db]]

SearchInvalidated(s, open) ==
    LET r == SearchInvalidate(s.search.cache, s.search.db, open)
    IN  [s EXCEPT !.search = [cache |-> r.cache, db |-> r.db]]

ContentInvalidated(s, open, filePath) ==
    LET r == ContentInvalidate(s.content.cache, s.content.db, open, filePath)
    IN  [s EXCEPT !.content = [cache |-> r.cache, db |-> r.db]]

IndexInvalidated(s, filePath) == [s EXCEPT !.index = IndexInvalidate(@, filePath)]

TrieInserted(s, filePath) == [s EXCEPT !.trie = TrieInsert(@, filePath)]

TrieRemoved(s, filePath) == [s EXCEPT !.trie = TrieRemove(@, filePath).trie]

\* mutant: a content change also drops the file listings
OnFileEvent_ChangeDropsListing(s, open, eventType, filePath) ==
    CASE eventType = "add" ->
            TrieInserted(SearchInvalidated(ListingInvalidated(s, open), open), filePath)
      [] eventType = "unlink" ->
            TrieRemoved(
                IndexInvalidated(
                    ContentInvalidated(
                        SearchInvalidated(ListingInvalidated(s, open), open), open, filePath),
                    filePath),
                filePath)
      [] eventType \in { "addDir", "unlinkDir" } ->
            SearchInvalidated(ListingInvalidated(s, open), open)
      [] eventType = "change" ->
            ListingInvalidated(
                IndexInvalidated(
                    SearchInvalidated(ContentInvalidated(s, open, filePath), open), filePath),
                open)

\* the callback startFileWatcher hands to FileWatcher.start
OnFileEvent(s, open, eventType, filePath) ==
    CASE eventType = "add" ->
            TrieInserted(SearchInvalidated(ListingInvalidated(s, open), open), filePath)
      [] eventType = "unlink" ->
            TrieRemoved(
                IndexInvalidated(
                    ContentInvalidated(
                        SearchInvalidated(ListingInvalidated(s, open), open), open, filePath),
                    filePath),
                filePath)
      [] eventType \in { "addDir", "unlinkDir" } ->
            SearchInvalidated(ListingInvalidated(s, open), open)
      [] eventType = "change" ->
            IndexInvalidated(
                SearchInvalidated(ContentInvalidated(s, open, filePath), open), filePath)

\* createNote(notePath, content) once the file is written
CreateNote(s, open, notePath) ==
    TrieInserted(
        SearchInvalidated(
            ContentInvalidated(ListingInvalidated(s, open), open, notePath), open),
        notePath)

\* updateNote(notePath, content, createIfNotExists)
UpdateNote(s, open, notePath, exists) ==
    IF ~exists THEN CreateNote(s, open, notePath)
    ELSE IndexInvalidated(
            SearchInvalidated(ContentInvalidated(s, open, notePath), open), notePath)

\* deleteNote(notePath) once the file is unlinked
DeleteNote(s, open, notePath) ==
    TrieRemoved(
        IndexInvalidated(
            SearchInvalidated(
                ContentInvalidated(ListingInvalidated(s, open), open, notePath), open),
            notePath),
        notePath)

\* mutant: a folder rename leaves the path trie as it was
RenameFolder_KeepsTrie(s, open) ==
    LET cleared == ContentClear(s.content.cache, s.content.db, open) IN
    [SearchInvalidated(ListingInvalidated(s, open), open) EXCEPT
        !.content = [cache |-> cleared.cache, db |-> cleared.db],
        !.index = IndexClear(@)]

\* renameFolder(folderPath, newPath) once the folder is renamed; moveFolder calls it
RenameFolder(s, open) ==
    LET cleared == ContentClear(s.content.cache, s.content.db, open) IN
    [SearchInvalidated(ListingInvalidated(s, open), open) EXCEPT
        !.content = [cache |-> cleared.cache, db |-> cleared.db],
        !.index = IndexClear(@),
        !.trie = TrieClear(@)]

\* deleteFolder(folderPath) once the folder is removed
DeleteFolder(s, open) ==
    LET cleared == ContentClear(s.content.cache, s.content.db, open) IN
    [SearchInvalidated(ListingInvalidated(s, open), open) EXCEPT
        !.content = [cache |-> cleared.cache, db |-> cleared.db],
        !.index = IndexClear(@),
        !.trie = TrieClear(@)]

\* readNote(notePath), the file having modification time mtime and text content
ReadNote(s, open, maxSize, options, notePath, mtime, content, t) ==
    LET got == ContentGet(s.content.cache, s.content.db, open, maxSize, notePath, mtime)
        put == ContentSet(got.cache, got.db, open, maxSize, notePath, content, mtime, t)
    IN  IF got.result # Absent
        THEN [s EXCEPT !.content = [cache |-> got.cache, db |-> got.db]]
        ELSE [s EXCEPT !.content = [cache |-> put.cache, db |-> put.db],
                       !.index = IndexContent(@, options, notePath, content)]

\* ------------------------------------------------------------------------
\* FileSystemService: search
\* ------------------------------------------------------------------------
\* A vault is a function from the relative paths of its markdown files to
\* [content, mtime]. Lists of files and of results are kept as sets: the properties
\* are about which paths a search returns, not about their order. The texts of the
\* model do not start with a "---" line.
\* the element of a one-element set: Only({ e(x) : x \in { v } }) is e of the value
\* of v, with v computed once
Only(S) == CHOOSE x \in S : TRUE

RECURSIVE SetToSeq(_)
SetToSeq(S) ==
    IF S = { } THEN << >>
    ELSE LET x == CHOOSE y \in S : TRUE IN << x >> \o SetToSeq(S \ { x })

\* new RegExp(escaped(query), 'gi').exec(line) finds something
Contains(text, query) ==
    \E i \in 1..(Len(text) - Len(query) + 1) :
        ToLowerCase(SubSeq(text, i, i + Len(query) - 1)) = ToLowerCase(query)

\* MatchExtractor.extractMatches: one match for every line the query occurs in
ExtractMatches(content, query) ==
    IF content = << >> \/ query = << >> THEN << >>
    ELSE LET lines == Split(content, "\n")
             hits == SelectSeq([i \in 1..Len(lines) |->
                                   [line |-> i, hit |-> Contains(lines[i], query)]],
                               LAMBDA m : m.hit)
         IN  [i \in 1..Len(hits) |-> [line |-> hits[i].line]]

\* SearchScorer.calculateScore in tenths: a value above 0 and at most 1 for a text
\* with matches. The value orders the results and is compared with minScore.
CalculateScore(matches, content, query) ==
    IF Len(matches) = 0 \/ content = << >> \/ query = << >> THEN 0
    ELSE IF Len(matches) * 5 < 10 THEN Len(matches) * 5 ELSE 10

\* a character of the class [\w/-]
IsTagChar(c) == IsWordChar(c) \/ c \in { "/", "-" }

RECURSIVE TagRun(_, _)
TagRun(s, i) ==
    IF i > Len(s) THEN << >>
    ELSE IF ~IsTagChar(s[i]) THEN << >>
    ELSE << s[i] >> \o TagRun(s, i + 1)

\* content.match(/#([\w/-]+)/g), '#' cut off, lower case, as a set
ExtractInlineTags(content) ==
    { ToLowerCase(TagRun(content, i + 1)) :
        i \in { j \in 1..(Len(content) - 1) : content[j] = "#" /\ IsTagChar(content[j + 1]) } }

\* FrontmatterParser.parse of a text without a frontmatter block: gray-matter returns
\* no data, so there are no frontmatter tags
ParseFrontmatter(content) == [tags |-> { }, data |-> EmptyDb, hasFrontmatter |-> FALSE]

\* t.toLowerCase().replace(/^#/, '')
NormalizeRequiredTag(t) ==
    LET lower == ToLowerCase(t) IN
    IF Len(lower) > 0 /\ lower[1] = "#" THEN Tail(lower) ELSE lower

\* every required tag is one of the tags or a parent of one of them
HasAllTags(tags, requiredTags) ==
    \A i \in 1..Len(requiredTags) :
        LET required == NormalizeRequiredTag(requiredTags[i]) IN
        \E tag \in tags :
            \/ tag = required
            \/ /\ Len(tag) > Len(required)
               /\ SubSeq(tag, 1, Len(required) + 1) = required \o << "/" >>

\* FrontmatterParser.matchesTags(content, requiredTags)
MatchesTags(content, requiredTags) ==
    Len(requiredTags) = 0 \/ HasAllTags(ParseFrontmatter(content).tags, requiredTags)

\* every criterion equals the frontmatter value of its key
MatchesCriteria(data, criteria) ==
    \A i \in 1..Len(criteria) :
        criteria[i].k \in DOMAIN data /\ data[criteria[i].k] = criteria[i].v

\* FrontmatterParser.matchesFrontmatter(content, criteria)
MatchesFrontmatter(content, criteria) ==
    Len(criteria) = 0 \/ MatchesCriteria(ParseFrontmatter(content).data, criteria)

\* ContentCache.getMetadata(filePath, currentMtime): [cache, db, metadata]
GetMetadata(cache, db, open, maxSize, filePath, currentMtime) ==
    LET got == ContentGet(cache, db, open, maxSize, filePath, currentMtime) IN
    [cache |-> got.cache,
     db |-> got.db,
     metadata |->
        IF got.result = Absent THEN Absent
        ELSE Some([frontmatter |-> ParseFrontmatter(got.result[1]),
                   allTags |-> ParseFrontmatter(got.result[1]).tags
                                   \cup ExtractInlineTags(got.result[1])])]

\* InvertedIndex.searchAny(query)
SearchAny(ix, options, query) ==
    IF ~ix.enabled \/ query = << >> THEN { }
    ELSE UNION { ix.wordToFiles[w] :
                    w \in ExtractWords(query, options) \cap DOMAIN ix.wordToFiles }

\* minimatch(file, pattern) for a pattern of literal characters and '*', which stands
\* for any run of characters other than '/'
RECURSIVE Minimatch(_, _)
Minimatch(file, pattern) ==
    IF pattern = << >> THEN file = << >>
    ELSE IF Head(pattern) = "*"
         THEN \/ Minimatch(file, Tail(pattern))
              \/ /\ file # << >>
                 /\ Head(file) # "/"
                 /\ Minimatch(Tail(file), pattern)
    ELSE /\ file # << >>
         /\ Head(file) = Head(pattern)
         /\ Minimatch(Tail(file), Tail(pattern))

HasWildcard(segment) == \E i \in 1..Len(segment) : segment[i] \in { "*", "?", "[" }

\* extractSimplePrefix(pattern): the segments before the first one with a wildcard
RECURSIVE PrefixSegments(_)
PrefixSegments(segments) ==
    IF segments = << >> THEN << >>
    ELSE IF HasWildcard(Head(segments)) THEN << >>
    ELSE << Head(segments) >> \o PrefixSegments(Tail(segments))

ExtractSimplePrefix(pattern) == Join(PrefixSegments(Split(pattern, "/")), << "/" >>)

\* matchPrefix(prefix): the files of the node the prefix leads to and of the nodes below
TrieMatchPrefix(t, prefix) ==
    IF prefix = << >> THEN TrieGetAllFiles(t)
    ELSE LET segments == SelectSeq(Split(TrieNormalizePath(prefix), "/"),
                                   LAMBDA x : Len(x) > 0)
         IN  IF segments \notin DOMAIN t.root THEN { }
             ELSE UNION { t.root[n].files :
                            n \in { k \in DOMAIN t.root :
                                      /\ Len(k) >= Len(segments)
                                      /\ SubSeq(k, 1, Len(segments)) = segments } }

\* matchGlob(pattern)
TrieMatchGlob(t, pattern) ==
    IF pattern = << >> THEN TrieGetAllFiles(t)
    ELSE LET simplePrefix == ExtractSimplePrefix(pattern)
             candidates == IF simplePrefix # << >> THEN TrieMatchPrefix(t, simplePrefix)
                           ELSE TrieGetAllFiles(t)
         IN  { file \in candidates : Minimatch(file, pattern) }

RECURSIVE TrieInsertAll(_, _)
TrieInsertAll(t, files) ==
    IF files = << >> THEN t ELSE TrieInsertAll(TrieInsert(t, Head(files)), Tail(files))

\* The configuration and the clock a call of the service sees:
\* c = [open, contentMax, listTtl, search, index, t]

\* listVaultFiles(''): [s, files]
ListVaultFiles(s, c, v) ==
    Only({ IF got.result # Absent
           THEN [s |-> [s EXCEPT !.listing = [cache |-> got.cache, db |-> got.db]],
                 files |-> got.result[1]]
           ELSE [s |-> [s EXCEPT !.listing = FileListSet(got.cache, got.db, c.open, "",
                                                         DOMAIN v, c.t),
                                 !.trie = TrieInsertAll(TrieClear(@), SetToSeq(DOMAIN v))],
                 files |-> DOMAIN v] :
           got \in { FileListGet(s.listing.cache, s.listing.db, c.open, c.listTtl, "",
                                 c.t) } })

\* readNote(notePath) on the vault v: [s, threw, content]; fs.stat throws for a file
\* that is not there
ReadNoteIn(s, c, v, notePath) ==
    IF notePath \notin DOMAIN v THEN [s |-> s, threw |-> TRUE, content |-> << >>]
    ELSE Only({ [s |-> ReadNote(s, c.open, c.contentMax, c.index, notePath,
                                v[notePath].mtime, v[notePath].content, c.t),
                 threw |-> FALSE,
                 content |-> IF cached # Absent THEN cached[1] ELSE v[notePath].content] :
                cached \in { ContentGet(s.content.cache, s.content.db, c.open,
                                        c.contentMax, notePath,
                                        v[notePath].mtime).result } })

\* getCandidateFiles(options): [s, files, narrowed]
GetCandidateFiles(s, c, v, options) ==
    Only({ IF indexedCandidates # { }
           THEN [s |-> s, files |-> indexedCandidates, narrowed |-> TRUE]
           ELSE IF Truthy(options.glob)
           THEN [s |-> s, files |-> TrieMatchGlob(s.trie, options.glob[1]),
                 narrowed |-> FALSE]
           ELSE Only({ [s |-> listed.s, files |-> listed.files, narrowed |-> FALSE] :
                       listed \in { ListVaultFiles(s, c, v) } }) :
           indexedCandidates \in
               { IF Truthy(options.query)
                 THEN SearchAny(s.index, c.index, options.query[1])
                 ELSE { } } })

\* filterFilesByPattern(files, glob, regex) without a regex
FilterFilesByPattern(s, files, glob) ==
    IF ~Truthy(glob) THEN files
    ELSE IF Cardinality(files) = TrieSize(s.trie) THEN TrieMatchGlob(s.trie, glob[1])
    ELSE { file \in files : Minimatch(file, glob[1]) }

\* batchReadWithMetadata for one file: [s, content, metadata]
\* the content of the file and the service once it is known: from the cache entry, or
\* from readNote
BatchContent(s, c, v, file) ==
    Only({ IF cachedEntry.result # Absent
           THEN [s |-> [s EXCEPT !.content = [cache |-> cachedEntry.cache,
                                              db |-> cachedEntry.db]],
                 content |-> cachedEntry.result[1]]
           ELSE Only({ [s |-> read.s, content |-> read.content] :
                       read \in { ReadNoteIn([s EXCEPT !.content =
                                                 [cache |-> cachedEntry.cache,
                                                  db |-> cachedEntry.db]],
                                             c, v, file) } }) :
           cachedEntry \in { ContentGet(s.content.cache, s.content.db, c.open,
                                        c.contentMax, file, v[file].mtime) } })

BatchReadOne(s, c, v, file) ==
    IF file \notin DOMAIN v THEN [s |-> s, content |-> << >>, metadata |-> Absent]
    ELSE Only({ Only({ [s |-> [got.s EXCEPT !.content = [cache |-> meta.cache,
                                                         db |-> meta.db]],
                        content |-> got.content,
                        metadata |-> meta.metadata] :
                       meta \in { GetMetadata(got.s.content.cache, got.s.content.db,
                                              c.open, c.contentMax, file,
                                              v[file].mtime) } }) :
                got \in { BatchContent(s, c, v, file) } })

\* the callback of the batch for one file: absent (null) or the file's result
ProcessBatchFile(options, file, content, metadata) ==
    LET allTags == IF metadata = Absent THEN { } ELSE metadata[1].allTags
        frontmatterData == IF metadata = Absent THEN EmptyDb
                           ELSE metadata[1].frontmatter.data
        matches == IF Truthy(options.query)
                   THEN ExtractMatches(content, options.query[1])
                   ELSE << >>
    IN  IF options.tags # Absent /\ Len(options.tags[1]) > 0
            /\ ~HasAllTags(allTags, options.tags[1])
        THEN Absent
        ELSE IF options.frontmatter # Absent /\ Len(options.frontmatter[1]) > 0
                /\ ~MatchesCriteria(frontmatterData, options.frontmatter[1])
        THEN Absent
        ELSE IF ~Truthy(options.query)
        THEN Some([path |-> file, score |-> 10, matches |-> << >>])
        ELSE IF Len(matches) > 0
        THEN Some([path |-> file,
                   score |-> CalculateScore(matches, content, options.query[1]),
                   matches |-> matches])
        ELSE Absent

\* one step of the batch loop: read the file, add its result if it has one
BatchStep(s, c, v, options, file, results) ==
    Only({ Only({ [s |-> read.s,
                   results |-> IF result = Absent THEN results
                               ELSE results \cup { result[1] }] :
                  result \in { ProcessBatchFile(options, file, read.content,
                                                read.metadata) } }) :
           read \in { BatchReadOne(s, c, v, file) } })

RECURSIVE BatchLoop(_, _, _, _, _, _)
BatchLoop(s, c, v, options, files, results) ==
    IF files = << >> THEN [s |-> s, results |-> results]
    ELSE Only({ BatchLoop(step.s, c, v, options, Tail(files), step.results) :
                step \in { BatchStep(s, c, v, options, Head(files), results) } })

\* SearchResultFilter.processResults for options without minScore and without limit:
\* the results, sorted
ProcessResults(results, options) ==
    IF options.minScore = Absent /\ options.limit = Absent THEN results
    ELSE { r \in results : options.minScore = Absent \/ r.score >= options.minScore[1] }

NoSearchOption(options) ==
    /\ ~Truthy(options.query)
    /\ ~Truthy(options.glob)
    /\ ~Truthy(options.regex)
    /\ options.tags = Absent
    /\ options.frontmatter = Absent

OnlyPatterns(options) ==
    ~Truthy(options.query) /\ options.tags = Absent /\ options.frontmatter = Absent

\* searchResultCache.set(options, processResults(results)): the service afterwards
ResultsStored(s, c, options, results) ==
    [s EXCEPT !.search = SearchSet(s.search.cache, s.search.db, c.open, c.search,
                                   options, SetToSeq(ProcessResults(results, options)),
                                   c.t)]

\* searchVaultWithOptions up to the batch loop:
\* [s, threw, cached, files, candidates, narrowed]
SearchStart(s, c, v, options) ==
    IF NoSearchOption(options)
    THEN [s |-> s, threw |-> TRUE, cached |-> Absent, files |-> { },
          candidates |-> { }, narrowed |-> FALSE]
    ELSE Only({ IF cachedResults.result # Absent
                THEN [s |-> [s EXCEPT !.search = [cache |-> cachedResults.cache,
                                                  db |-> cachedResults.db]],
                      threw |-> FALSE, cached |-> cachedResults.result,
                      files |-> { }, candidates |-> { }, narrowed |-> FALSE]
                ELSE Only({ [s |-> candidates.s, threw |-> FALSE, cached |-> Absent,
                             files |-> FilterFilesByPattern(candidates.s,
                                                            candidates.files,
                                                            options.glob),
                             candidates |-> candidates.files,
                             narrowed |-> candidates.narrowed] :
                            candidates \in
                                { GetCandidateFiles(
                                      [s EXCEPT !.search =
                                          [cache |-> cachedResults.cache,
                                           db |-> cachedResults.db]],
                                      c, v, options) } }) :
                cachedResults \in { SearchGet(s.search.cache, s.search.db, c.open,
                                              c.search, options, c.t) } })

\* searchVaultWithOptions(options) with nothing else running in between:
\* [s, threw, cached, results, candidates, narrowed, files]
\* the results of the files that passed the patterns, and the service afterwards
SearchFound(start, c, v, options) ==
    IF OnlyPatterns(options)
    THEN [s |-> start.s,
          results |-> { [path |-> f, score |-> 10, matches |-> << >>] :
                          f \in start.files }]
    ELSE BatchLoop(start.s, c, v, options, SetToSeq(start.files), { })

SearchVaultWithOptions(s, c, v, options) ==
    Only({ IF start.threw
           THEN [s |-> s, threw |-> TRUE, cached |-> FALSE, results |-> { },
                 candidates |-> { }, narrowed |-> FALSE, files |-> { }]
           ELSE IF start.cached # Absent
           THEN [s |-> start.s, threw |-> FALSE, cached |-> TRUE,
                 results |-> SeqToSet(start.cached[1]),
                 candidates |-> { }, narrowed |-> FALSE, files |-> { }]
           ELSE Only({ [s |-> ResultsStored(found.s, c, options, found.results),
                        threw |-> FALSE,
                        cached |-> FALSE,
                        results |-> ProcessResults(found.results, options),
                        candidates |-> start.candidates,
                        narrowed |-> start.narrowed,
                        files |-> start.files] :
                       found \in { SearchFound(start, c, v, options) } }) :
           start \in { SearchStart(s, c, v, options) } })

\* the loop of searchVaultStreaming for one file, once readNote returned or threw
StreamRead(options, file, read, yielded) ==
    LET matches == IF Truthy(options.query)
                   THEN ExtractMatches(read.content, options.query[1])
                   ELSE << >>
        result == IF ~Truthy(options.query)
                  THEN [path |-> file, score |-> 10, matches |-> << >>]
                  ELSE [path |-> file,
                        score |-> CalculateScore(matches, read.content, options.query[1]),
                        matches |-> matches]
        passes ==
            /\ ~read.threw
            /\ options.tags # Absent /\ Len(options.tags[1]) > 0
                   => MatchesTags(read.content, options.tags[1])
            /\ options.frontmatter # Absent /\ Len(options.frontmatter[1]) > 0
                   => MatchesFrontmatter(read.content, options.frontmatter[1])
            /\ Truthy(options.query) => Len(matches) > 0
            /\ (Truthy(options.query) /\ options.minScore # Absent)
                   => result.score >= options.minScore[1]
    IN  [s |-> read.s, yielded |-> IF passes THEN yielded \cup { result } ELSE yielded]

StreamStep(s, c, v, options, file, yielded) ==
    Only({ StreamRead(options, file, read, yielded) :
           read \in { ReadNoteIn(s, c, v, file) } })

RECURSIVE StreamLoop(_, _, _, _, _, _)
StreamLoop(s, c, v, options, files, yielded) ==
    IF files = << >> THEN [s |-> s, yielded |-> yielded]
    ELSE Only({ StreamLoop(step.s, c, v, options, Tail(files), step.yielded) :
                step \in { StreamStep(s, c, v, options, Head(files), yielded) } })

\* searchVaultStreaming(options) without a limit, consumed to its end:
\* [s, threw, results, files]
StreamFiltered(candidates, c, v, options, files) ==
    Only({ [s |-> loop.s, threw |-> FALSE, results |-> loop.yielded, files |-> files] :
           loop \in { StreamLoop(candidates.s, c, v, options, SetToSeq(files), { }) } })

SearchVaultStreaming(s, c, v, options) ==
    IF NoSearchOption(options)
    THEN [s |-> s, threw |-> TRUE, results |-> { }, files |-> { }]
    ELSE Only({ Only({ StreamFiltered(candidates, c, v, options, files) :
                       files \in { FilterFilesByPattern(candidates.s, candidates.files,
                                                        options.glob) } }) :
                candidates \in { GetCandidateFiles(s, c, v, options) } })

\* processPendingChanges: the callback runs for every pending change, in Map order
RECURSIVE DeliverAll(_, _, _)
DeliverAll(s, open, changes) ==
    IF changes = << >> THEN s
    ELSE Only({ DeliverAll(after, open, Tail(changes)) :
                after \in { OnFileEvent(s, open, Head(changes).val.eventType,
                                        Head(changes).val.filePath) } })

\* ------------------------------------------------------------------------
\* State
\* ------------------------------------------------------------------------
VARIABLES
    now,          \* Date.now()
    focus,        \* the cache object the behaviour exercises
    storeOpen,    \* the persistent store could be opened (PersistentCache.db !== null)
    cCache,       \* ContentCache.cache (Map)
    cDb,          \* partition "content" of the store
    cMaxSize,     \* ContentCache.maxSize
    fCache,       \* FileListCache.cache
    fDb,          \* partition "fileList" of the store
    fTtl,         \* FileListCache.ttl
    sCache,       \* SearchResultCache.cache (Map)
    sDb,          \* partition "search" of the store
    sCfg,         \* SearchResultCache.options
    recency,      \* keys of the exercised LRU map, least recently touched first
    lastOp,       \* the last cache call: its arguments, its result, the calls before it
    enabled,      \* InvertedIndex.enabled
    wordToFiles,  \* InvertedIndex.wordToFiles
    fileToWords,  \* InvertedIndex.fileToWords
    indexOptions, \* InvertedIndex.options
    indexCall,    \* the last index call and the indexContent call right before it
    fw,           \* FileWatcher fields: watcher, isWatching, onChangeCallback,
                  \* debounceTimer, pendingChanges
    fwDelay,      \* FileWatcher.options.debounceDelay
    fwSeen,       \* per file path, how far the raw events of the current window
                  \* spell add, change, unlink
    fwQuiet,      \* time since the last raw event, and since the last tracked one
    fwFlush,      \* the last run of processPendingChanges or stop: what it delivered
    fwRaw,        \* the raw event handleChange has just stored: its kind, its relative
                  \* path, the pending kind it met
    trie,         \* PathTrie fields: root, allFiles, fileCount
    trieLive,     \* the paths inserted and not removed since, as the trie spells them
    trieCall,     \* the last trie call
    svcCall,      \* the last call of the service or of its watcher callback
    keyLeft,      \* a search option set
    keyRight,     \* another one, or the same
    keyOut,       \* their keys, and what get for the second returns after set for the first
    heap,         \* the objects of result lists: arrays, results, matches
    heapEntry,    \* the array a search-cache entry holds
    heapHeld,     \* the arrays a caller holds: passed to set or returned by get
    heapCall,     \* the last call or change of the caller
    env,          \* LmdbEnvironmentManager fields: rootDb, databases, dbPath, refCount
    envCaches,    \* the PersistentCache objects constructed, and whether close() was called
    envTeardown,  \* the last time the environment was closed: by what, with how many
                  \* caches holding a partition of it that they had not closed
    vault,        \* the markdown files of the vault: path -> content and mtimeMs
    edits,        \* how many times a file of the vault was written or removed from outside
    pending,      \* FileWatcher.pendingChanges: the events not yet delivered
    srch,         \* the last search call: its options, what it returned, what it read
    inflight,     \* a searchVaultWithOptions call between two of its awaits
    ins,          \* a setInMemory call, statement by statement: the cache it belongs to,
                  \* its Map, its maxSize, where the call is, the key it inserts, and
                  \* whether the passes of its loop so far are even or odd in number
    pg            \* the batch loop of one searchVaultWithOptions call: the candidate
                  \* files with the score each would get, the batch size, the options,
                  \* where the loop is, the results pushed so far, the list returned

cacheVars ==
    << now, focus, storeOpen, cCache, cDb, cMaxSize, fCache, fDb, fTtl,
       sCache, sDb, sCfg, recency, lastOp >>

NoCall ==
    [cache |-> "none", op |-> "init", key |-> Absent, val |-> Absent, mtime |-> 0,
     at |-> 0, result |-> Absent, pre |-> Absent, prev |-> Absent]

\* pre: what the caller could observe right before the call
\*   get: the modification time the path was stored with, if it was stored
\*   set: whether the call dropped a key from memory
Call(cache, op, key, val, mtime, result, pre, prev) ==
    [cache |-> cache, op |-> op, key |-> Some(key), val |-> val, mtime |-> mtime,
     at |-> IF op = "set" THEN now ELSE 0, result |-> result, pre |-> pre, prev |-> prev]

StoredMtime(cache, db, open, key) ==
    IF MapHas(cache, key) THEN Some(MapGet(cache, key).mtime)
    ELSE IF PersistentHas(db, open, key) THEN db[key].mtime
    ELSE Absent

InsertObserved(before, after) == Some(MapKeys(before) \ MapKeys(after) # { })

\* a call whose arguments and result no property reads
Plain(cache, op) == [NoCall EXCEPT !.cache = cache, !.op = op]

\* the calls remembered before a call: a get remembers the restart right before it,
\* a restart remembers the set right before it
PrevOfGet == IF lastOp.op = "restart" THEN Some(lastOp) ELSE Absent

PrevOfRestart == IF lastOp.op = "set" THEN Some(lastOp) ELSE Absent

\* the recency order after `key` was touched (or not), kept to the keys in memory
Touch(order, key) == SelectSeq(order, LAMBDA k : k # key) \o << key >>

Touched(order, key, touched, memory) ==
    SelectSeq(IF touched THEN Touch(order, key) ELSE order,
              LAMBDA k : k \in MapKeys(memory))

\* the caches as constructed; open: whether the PersistentCache objects got a database
InitCacheOn(open) ==
    /\ now = 0
    /\ focus \in { "content", "listing", "search" }
    /\ storeOpen = open
    /\ cCache = << >>
    /\ cDb = EmptyDb
    /\ cMaxSize \in (IF focus = "content" THEN { 1, MaxCap } ELSE { MaxCap })
    /\ fCache = EmptyDb
    /\ fDb = EmptyDb
    /\ fTtl = MaxTtl
    /\ sCache = << >>
    /\ sDb = EmptyDb
    /\ sCfg \in (IF focus = "search"
                 THEN [maxSize : { 1, MaxCap }, ttl : { MaxTtl }, enableCompression : BOOLEAN,
                       compressionThreshold : { SmallThreshold }]
                 ELSE { [maxSize |-> MaxCap, ttl |-> MaxTtl, enableCompression |-> FALSE,
                         compressionThreshold |-> SmallThreshold] })
    /\ recency = << >>
    /\ lastOp = NoCall

InitCache == InitCacheOn(TRUE)

contentVars == << cCache, cDb >>

listVars == << fCache, fDb >>

searchVars == << sCache, sDb >>

configVars == << focus, storeOpen, cMaxSize, fTtl, sCfg >>

indexVars == << enabled, wordToFiles, fileToWords, indexOptions, indexCall >>

watcherVars == << fw, fwDelay, fwSeen, fwQuiet, fwFlush, fwRaw >>

trieVars == << trie, trieLive, trieCall >>

serviceVars == << svcCall >>

keyVars == << keyLeft, keyRight, keyOut >>

insertVars == << ins >>

pageVars == << pg >>

copyVars == << heap, heapEntry, heapHeld, heapCall >>

envVars == << env, envCaches, envTeardown >>

vaultVars == << vault, edits, pending, srch, inflight >>

vars ==
    << cacheVars, indexVars, watcherVars, trieVars, serviceVars, keyVars, insertVars, pageVars, copyVars,
       envVars, vaultVars >>

\* what the operations of one component leave alone
outsideCache ==
    << indexVars, watcherVars, trieVars, serviceVars, keyVars, insertVars, pageVars, copyVars, envVars, vaultVars >>

outsideIndex ==
    << cacheVars, watcherVars, trieVars, serviceVars, keyVars, insertVars, pageVars, copyVars, envVars, vaultVars >>

outsideWatcher ==
    << cacheVars, indexVars, trieVars, serviceVars, keyVars, insertVars, pageVars, copyVars, envVars, vaultVars >>

outsideTrie ==
    << cacheVars, indexVars, watcherVars, serviceVars, keyVars, insertVars, pageVars, copyVars, envVars, vaultVars >>

\* the index and the watcher as constructed, for the behaviours that do not use them
IndexIdle ==
    /\ enabled = TRUE
    /\ wordToFiles = EmptyDb
    /\ fileToWords = EmptyDb
    /\ indexOptions = [minWordLength |-> 0, maxWordsPerFile |-> 0, stopWords |-> { }]
    /\ indexCall = [op |-> "init", path |-> << >>, content |-> << >>, prev |-> Absent]

NoFlush == [by |-> "none"]

NoRaw == [eventType |-> "none", filePath |-> << >>, existing |-> Absent]

WatcherIdle ==
    /\ fw = [watcher |-> "null", isWatching |-> FALSE, onChangeCallback |-> FALSE,
             debounceTimer |-> Absent, pendingChanges |-> << >>]
    /\ fwDelay = 0
    /\ fwSeen = EmptyDb
    /\ fwQuiet = [raw |-> 0, tracked |-> 0]
    /\ fwFlush = NoFlush
    /\ fwRaw = NoRaw

NoTrieCall == [op |-> "init", path |-> << >>, threw |-> FALSE]

TrieIdle ==
    /\ trie = EmptyTrie
    /\ trieLive = { }
    /\ trieCall = NoTrieCall

NothingHeld == [content |-> 0, index |-> 0, trie |-> 0, listing |-> 0]

NoServiceCall ==
    [op |-> "init", kind |-> "none", path |-> << >>, cached |-> { }, held |-> NothingHeld]

ServiceIdle == svcCall = NoServiceCall

NoTeardown == [by |-> "none", holders |-> 0]

\* the manager before any cache is constructed
EnvIdle ==
    /\ env = EmptyEnv
    /\ envCaches = << >>
    /\ envTeardown = NoTeardown

\* op: "search" (searchVaultWithOptions) or "stream" (searchVaultStreaming);
\* cached: the result list came from the search cache; paths: the paths returned;
\* candidates, narrowed: what getCandidateFiles returned and whether it came from
\* the inverted index; files: what filterFilesByPattern let through; saw: the vault at
\* the time of the call; settled: no change of the vault was waiting to be delivered;
\* read: for every file the call read, the mtime it found, or -1 for no file
NoSearch ==
    [op |-> "init", options |-> NoOptions, threw |-> FALSE, cached |-> FALSE,
     paths |-> { }, candidates |-> { }, narrowed |-> FALSE, files |-> { },
     saw |-> EmptyDb, settled |-> TRUE, read |-> EmptyDb]

\* no vault, no search: for the behaviours that do not search
VaultIdle ==
    /\ vault = EmptyDb
    /\ edits = 0
    /\ pending = << >>
    /\ srch = NoSearch
    /\ inflight = Absent

CopyIdle ==
    /\ heap = << >>
    /\ heapEntry = Absent
    /\ heapHeld = { }
    /\ heapCall = [op |-> "init", object |-> 0, root |-> 0]

\* no batch loop is followed
PageIdle ==
    pg = [files |-> << >>, batchSize |-> 1,
          options |-> [minScore |-> Absent, limit |-> Absent, offset |-> Absent],
          pc |-> "done", i |-> 0, results |-> << >>, batches |-> 0, read |-> 0,
          broke |-> FALSE, page |-> << >>]

\* no setInMemory call is followed
InsertIdle ==
    ins = [of |-> "none", cache |-> << >>, maxSize |-> 1, pc |-> "idle", key |-> << >>,
           passes |-> 0]

KeyIdle ==
    /\ keyLeft = NoOptions
    /\ keyRight = NoOptions
    /\ keyOut = Absent

\* the caches as constructed, for the behaviours that do not use them
CacheIdle ==
    /\ now = 0
    /\ focus = "none"
    /\ storeOpen = TRUE
    /\ cCache = << >>
    /\ cDb = EmptyDb
    /\ cMaxSize = MaxCap
    /\ fCache = EmptyDb
    /\ fDb = EmptyDb
    /\ fTtl = MaxTtl
    /\ sCache = << >>
    /\ sDb = EmptyDb
    /\ sCfg = [maxSize |-> MaxCap, ttl |-> MaxTtl, enableCompression |-> FALSE,
               compressionThreshold |-> SmallThreshold]
    /\ recency = << >>
    /\ lastOp = NoCall

\* ------------------------------------------------------------------------
\* Cache operations
\* ------------------------------------------------------------------------
Tick ==
    /\ focus \in { "listing", "search" }
    /\ now < MaxTime
    /\ now' = now + 1
    /\ UNCHANGED << configVars, contentVars, listVars, searchVars, recency, lastOp,
                    outsideCache >>

ContentCacheGet ==
    /\ focus = "content"
    /\ \E p \in ContentPaths, m \in Mtimes :
        LET r == ContentGet(cCache, cDb, storeOpen, cMaxSize, p, m) IN
        /\ cCache' = r.cache
        /\ cDb' = r.db
        /\ recency' = Touched(recency, ContentNormalizePath(p), r.result # Absent, r.cache)
        /\ lastOp' = Call("content", "get", p, Absent, m, r.result,
                          StoredMtime(cCache, cDb, storeOpen, ContentNormalizePath(p)),
                          PrevOfGet)
    /\ UNCHANGED << now, configVars, listVars, searchVars,
                    outsideCache >>

ContentCacheSet ==
    /\ focus = "content"
    /\ \E p \in ContentPaths, c \in Contents, m \in Mtimes :
        LET r == ContentSet(cCache, cDb, storeOpen, cMaxSize, p, c, m, now) IN
        /\ cCache' = r.cache
        /\ cDb' = r.db
        /\ recency' = Touched(recency, ContentNormalizePath(p), TRUE, r.cache)
        /\ lastOp' = Call("content", "set", p, Some(c), m, Absent,
                          InsertObserved(cCache, r.cache),
                          Absent)
    /\ UNCHANGED << now, configVars, listVars, searchVars,
                    outsideCache >>

ContentCacheInvalidate ==
    /\ focus = "content"
    /\ \E p \in ContentPaths :
        LET r == ContentInvalidate(cCache, cDb, storeOpen, p) IN
        /\ cCache' = r.cache
        /\ cDb' = r.db
        /\ recency' = Touched(recency, ContentNormalizePath(p), FALSE, r.cache)
        /\ lastOp' = Plain("content", "invalidate")
    /\ UNCHANGED << now, configVars, listVars, searchVars,
                    outsideCache >>

ContentCacheClear ==
    /\ focus = "content"
    /\ LET r == ContentClear(cCache, cDb, storeOpen) IN
        /\ cCache' = r.cache
        /\ cDb' = r.db
    /\ recency' = << >>
    /\ lastOp' = Plain("content", "clear")
    /\ UNCHANGED << now, configVars, listVars, searchVars,
                    outsideCache >>

FileListCacheGet ==
    /\ focus = "listing"
    /\ \E f \in Folders :
        LET r == FileListGet(fCache, fDb, storeOpen, fTtl, f, now) IN
        /\ fCache' = r.cache
        /\ fDb' = r.db
        /\ lastOp' = Call("listing", "get", f, Absent, 0, r.result, Absent, PrevOfGet)
    /\ UNCHANGED << now, configVars, contentVars, searchVars, recency,
                    outsideCache >>

FileListCacheSet ==
    /\ focus = "listing"
    /\ \E f \in Folders, files \in FileLists :
        LET r == FileListSet(fCache, fDb, storeOpen, f, files, now) IN
        /\ fCache' = r.cache
        /\ fDb' = r.db
        /\ lastOp' = Call("listing", "set", f, Some(files), 0, Absent, Absent, Absent)
    /\ UNCHANGED << now, configVars, contentVars, searchVars, recency,
                    outsideCache >>

FileListCacheInvalidate ==
    /\ focus = "listing"
    /\ \E f \in Folders :
        LET r == FileListInvalidate(fCache, fDb, storeOpen, f) IN
        /\ fCache' = r.cache
        /\ fDb' = r.db
        /\ lastOp' = Call("listing", "invalidate", f, Absent, 0, Absent, Absent, Absent)
    /\ UNCHANGED << now, configVars, contentVars, searchVars, recency,
                    outsideCache >>

FileListCacheInvalidateAll ==
    /\ focus = "listing"
    /\ LET r == FileListInvalidateAll(fCache, fDb, storeOpen) IN
        /\ fCache' = r.cache
        /\ fDb' = r.db
    /\ lastOp' = Plain("listing", "invalidateAll")
    /\ UNCHANGED << now, configVars, contentVars, searchVars, recency,
                    outsideCache >>

SearchCacheGet ==
    /\ focus = "search"
    /\ \E o \in SearchOptionSets :
        LET r == SearchGet(sCache, sDb, storeOpen, sCfg, o, now) IN
        /\ sCache' = r.cache
        /\ sDb' = r.db
        /\ recency' = Touched(recency, KeyOf[o], r.result # Absent, r.cache)
        /\ lastOp' = Call("search", "get", o, Absent, 0, r.result, Absent, PrevOfGet)
    /\ UNCHANGED << now, configVars, contentVars, listVars,
                    outsideCache >>

SearchCacheSet ==
    /\ focus = "search"
    /\ \E o \in SearchOptionSets, res \in ResultLists :
        LET r == SearchSet(sCache, sDb, storeOpen, sCfg, o, res, now) IN
        /\ sCache' = r.cache
        /\ sDb' = r.db
        /\ recency' = Touched(recency, KeyOf[o], TRUE, r.cache)
        /\ lastOp' = Call("search", "set", o, Some(res), 0, Absent,
                          InsertObserved(sCache, r.cache),
                          Absent)
    /\ UNCHANGED << now, configVars, contentVars, listVars,
                    outsideCache >>

SearchCacheInvalidate ==
    /\ focus = "search"
    /\ LET r == SearchInvalidate(sCache, sDb, storeOpen) IN
        /\ sCache' = r.cache
        /\ sDb' = r.db
    /\ recency' = << >>
    /\ lastOp' = Plain("search", "invalidate")
    /\ UNCHANGED << now, configVars, contentVars, listVars,
                    outsideCache >>

\* Process restart: the cache objects are constructed anew over the same store path
Restart ==
    /\ cCache' = << >>
    /\ fCache' = EmptyDb
    /\ sCache' = << >>
    /\ recency' = << >>
    /\ lastOp' = [Plain(focus, "restart") EXCEPT !.prev = PrevOfRestart]
    /\ UNCHANGED << now, configVars, cDb, fDb, sDb,
                    outsideCache >>

NextCache ==
    \/ Tick
    \/ ContentCacheGet
    \/ ContentCacheSet
    \/ ContentCacheInvalidate
    \/ ContentCacheClear
    \/ FileListCacheGet
    \/ FileListCacheSet
    \/ FileListCacheInvalidate
    \/ FileListCacheInvalidateAll
    \/ SearchCacheGet
    \/ SearchCacheSet
    \/ SearchCacheInvalidate
    \/ Restart

InitCacheOnly == InitCache /\ IndexIdle /\ WatcherIdle /\ TrieIdle /\ ServiceIdle /\ KeyIdle /\ InsertIdle /\ PageIdle /\ CopyIdle /\ EnvIdle /\ VaultIdle

SpecCache == InitCacheOnly /\ [][NextCache]_vars

\* ------------------------------------------------------------------------
\* Properties of the caches
\* ------------------------------------------------------------------------
IsCall(cache, op) == lastOp.cache = cache /\ lastOp.op = op

\* C1: a ContentCache.get(path, m') on a path stored with another modification time
\* returns absent, and right after it has(path) is false: the stale entry is gone
\* from memory and from the persistent store.
C1_StaleGetInvalidates ==
    (IsCall("content", "get") /\ lastOp.pre # Absent /\ lastOp.pre # Some(lastOp.mtime))
        => /\ lastOp.result = Absent
           /\ ~ContentHas(cCache, cDb, storeOpen, lastOp.key[1])

C1_Witness ==
    /\ IsCall("content", "get")
    /\ lastOp.pre # Absent
    /\ lastOp.pre # Some(lastOp.mtime)
    /\ lastOp.result = Absent

\* a get that directly follows a restart that directly follows a set of the same key
\* on the same cache
IsRoundTrip ==
    /\ lastOp.op = "get"
    /\ lastOp.prev # Absent
    /\ lastOp.prev[1].prev # Absent
    /\ lastOp.prev[1].prev[1].cache = lastOp.cache
    /\ lastOp.prev[1].prev[1].key = lastOp.key

StoredCall == lastOp.prev[1].prev[1]

\* the stored value is still to be served: same mtime (content), TTL not elapsed
StillValid ==
    CASE lastOp.cache = "content" -> lastOp.mtime = StoredCall.mtime
      [] lastOp.cache = "listing" -> now - StoredCall.at < fTtl
      [] lastOp.cache = "search" -> now - StoredCall.at < sCfg.ttl
      [] OTHER -> FALSE

\* C2: set(k, v), then a restart (new cache objects over the same store), then get(k)
\* returns v, for the content cache with the same mtime and for the listing and
\* search caches while the TTL has not elapsed.
C2_RoundTripAcrossRestart ==
    (storeOpen /\ IsRoundTrip /\ StillValid) => lastOp.result = StoredCall.val

C2_Witness ==
    /\ IsRoundTrip
    /\ StillValid
    /\ lastOp.cache = "search"
    /\ lastOp.result = Some(LargeResults)
    /\ sCfg.enableCompression

\* the key a successful get has just read, when the next call is an insert
JustRead ==
    IF lastOp.op = "get" /\ lastOp.result # Absent /\ lastOp'.op = "set" /\ now' = now
    THEN IF lastOp.cache = "content" THEN { ContentNormalizePath(lastOp.key[1]) }
         ELSE IF lastOp.cache = "search" THEN { KeyOf[lastOp.key[1]] }
         ELSE { }
    ELSE { }

MemoryKeys == IF focus = "content" THEN MapKeys(cCache) ELSE MapKeys(sCache)

MemoryCapacity == IF focus = "content" THEN cMaxSize ELSE sCfg.maxSize

\* the key a step inserts, when the step is a set of a key that is not in memory and
\* memory is at capacity
InsertedIntoFull ==
    IF lastOp'.op = "set" /\ now' = now /\ focus \in { "content", "search" }
    THEN LET key == IF focus = "content" THEN ContentNormalizePath(lastOp'.key[1])
                    ELSE KeyOf[lastOp'.key[1]]
         IN  IF key \notin MemoryKeys /\ Cardinality(MemoryKeys) >= MemoryCapacity
             THEN { key } ELSE { }
    ELSE { }

C17_InvalidateCoversRelatedFolders ==
    (IsCall("listing", "invalidate") /\ lastOp.key # Absent) =>
        LET key == NormalizeFolder(lastOp.key[1]) IN
        \A g \in Folders :
            (NormalizeFolder(g) = key \/ IsRelatedFolder(NormalizeFolder(g), key)) =>
                FileListGet(fCache, fDb, storeOpen, fTtl, g, now).result = Absent

\* C28: in every reachable state the in-memory Map of the Content cache and of the
\* Search cache holds at most maxSize entries (maxSize a positive number).
C28_MemoryNeverExceedsMaxSize ==
    /\ Len(cCache) <= cMaxSize
    /\ Len(sCache) <= sCfg.maxSize

\* a set that dropped a key left the Content cache exactly full
C28_Witness ==
    /\ IsCall("content", "set")
    /\ lastOp.pre = Some(TRUE)
    /\ cMaxSize = MaxCap
    /\ Len(cCache) = cMaxSize

\* the keys a ContentCache.set drops from memory
DroppedBySet ==
    IF lastOp'.cache = "content" /\ lastOp'.op = "set"
    THEN MapKeys(cCache) \ MapKeys(cCache')
    ELSE { }

\* C29: a key dropped from the memory of the Content cache by a set at capacity keeps
\* its row in the store, and get with the modification time it was stored with returns
\* its content from the store; a row leaves the store only by invalidate, clear or a
\* get of its key with another modification time.
C29_EvictionKeepsPersistedCopy ==
    [][ /\ \A k \in DroppedBySet :
            /\ k \in DOMAIN cDb'
            /\ cDb'[k] = cDb[k]
            /\ ContentGet(cCache', cDb', storeOpen, cMaxSize, k, MapGet(cCache, k).mtime).result
                   = Some(MapGet(cCache, k).content)
        /\ \A k \in (DOMAIN cDb) \ (DOMAIN cDb') :
            \/ lastOp'.op \in { "invalidate", "clear" }
            \/ /\ lastOp'.op = "get"
               /\ ContentNormalizePath(lastOp'.key[1]) = k
               /\ lastOp'.result = Absent ]_vars

\* a set has dropped a key from memory and the key's row is in the store
C29_Witness ==
    /\ IsCall("content", "set")
    /\ lastOp.pre = Some(TRUE)
    /\ \E k \in DOMAIN cDb : ~MapHas(cCache, k)

\* C30: FileListCache.get at time now returns a list only if the list was stored at a
\* time t with now - t < ttl, whether the entry is served from memory or from the store.
C30_ListingServedOnlyWithinTtl ==
    \A f \in Folders :
        LET r == FileListGet(fCache, fDb, storeOpen, fTtl, f, now) IN
        r.result # Absent => now - r.cache[NormalizeFolder(f)].timestamp < fTtl

\* ------------------------------------------------------------------------
\* SearchResultCache on a store with a damaged row
\* ------------------------------------------------------------------------
\* the text of a compressed row of the store is damaged on disk
CorruptSearchRow ==
    /\ focus = "search"
    /\ \E k \in DOMAIN sDb :
        /\ sDb[k].data.isCompressed
        /\ sDb[k].data.results.kind = "deflate"
        /\ sDb' = [sDb EXCEPT ![k].data.results = Garbage]
    /\ lastOp' = Plain("search", "corrupt")
    /\ UNCHANGED << now, configVars, contentVars, listVars, sCache, recency,
                    outsideCache >>

InitCorrupt ==
    /\ InitCacheOnly
    /\ focus = "search"
    /\ sCfg.enableCompression
    /\ sCfg.maxSize = MaxCap

NextCorrupt ==
    \/ SearchCacheSet
    \/ SearchCacheGet
    \/ Restart
    \/ CorruptSearchRow

SpecCorrupt == InitCorrupt /\ [][NextCorrupt]_vars

\* C16: a get that finds a compressed entry it cannot decompress returns absent
C16_FailedDecompressionIsMiss ==
    (/\ IsCall("search", "get")
     /\ MapHas(sCache, KeyOf[lastOp.key[1]])
     /\ MapGet(sCache, KeyOf[lastOp.key[1]]).isCompressed
     /\ Inflate(MapGet(sCache, KeyOf[lastOp.key[1]]).results).threw)
        => lastOp.result = Absent

\* ------------------------------------------------------------------------
\* The caches when the store could not be opened
\* ------------------------------------------------------------------------
\* the PersistentCache constructor got null from openDatabase
InitDegraded ==
    /\ \E fail \in OpenFailures \ { "none" } :
        InitCacheOn(NewPersistentCache(EmptyEnv, "/c1", "content", fail).cache.enabled)
    /\ IndexIdle /\ WatcherIdle /\ TrieIdle /\ ServiceIdle /\ KeyIdle /\ InsertIdle /\ PageIdle /\ CopyIdle /\ EnvIdle /\ VaultIdle

SpecDegraded == InitDegraded /\ [][NextCache]_vars

\* every operation of a PersistentCache without database does nothing and returns
\* absent or false
StoreDoesNothing(db, keys, ttl) ==
    /\ db = EmptyDb
    /\ PersistentClear(db, storeOpen) = db
    /\ \A k \in keys :
        /\ PersistentSet(db, storeOpen, k, "data", Absent, now) = db
        /\ PersistentDelete(db, storeOpen, k) = db
        /\ ~PersistentHas(db, storeOpen, k)
        /\ PersistentGetWithTtl(db, storeOpen, k, ttl, now).value = Absent
        /\ PersistentGetWithMtime(db, storeOpen, k, 100).value = Absent

\* the value a set has just stored is what get returns for the same key
ServedFromMemory ==
    CASE IsCall("content", "set") ->
            ContentGet(cCache, cDb, storeOpen, cMaxSize, lastOp.key[1],
                       lastOp.mtime).result = lastOp.val
      [] IsCall("listing", "set") /\ now - lastOp.at < fTtl ->
            FileListGet(fCache, fDb, storeOpen, fTtl, lastOp.key[1], now).result
                = lastOp.val
      [] IsCall("search", "set") /\ now - lastOp.at < sCfg.ttl ->
            SearchGet(sCache, sDb, storeOpen, sCfg, lastOp.key[1], now).result
                = lastOp.val
      [] OTHER -> TRUE

\* C19: when the store could not be opened, every PersistentCache operation does
\* nothing and returns absent or false, and the content, listing and search caches
\* still return from memory what was set
C19_DegradesToMemoryOnly ==
    ~storeOpen =>
        /\ StoreDoesNothing(cDb, MapKeys(cCache), 0)
        /\ StoreDoesNothing(fDb, DOMAIN fCache, fTtl)
        /\ StoreDoesNothing(sDb, MapKeys(sCache), sCfg.ttl)
        /\ ServedFromMemory

\* a compressed result list was set without a store and is served from memory
C19_Witness ==
    /\ ~storeOpen
    /\ IsCall("search", "set")
    /\ lastOp.val = Some(LargeResults)
    /\ sCfg.enableCompression
    /\ sDb = EmptyDb
    /\ SearchGet(sCache, sDb, storeOpen, sCfg, lastOp.key[1], now).result
            = Some(LargeResults)

\* ------------------------------------------------------------------------
\* Inverted index operations
\* ------------------------------------------------------------------------
SmallWordCap == 2

\* "a.md", "d/b.md" and "d\b.md"
IndexPaths ==
    { << "a", ".", "m", "d" >>,
      << "d", "/", "b", ".", "m", "d" >>,
      << "d", "\\", "b", ".", "m", "d" >> }

\* "", "Hello world", "the cat", "hello, hello cat" and "a: an"
IndexContents ==
    { << >>,
      << "H", "e", "l", "l", "o", " ", "w", "o", "r", "l", "d" >>,
      << "t", "h", "e", " ", "c", "a", "t" >>,
      << "h", "e", "l", "l", "o", ",", " ", "h", "e", "l", "l", "o", " ", "c", "a", "t" >>,
      << "a", ":", " ", "a", "n" >> }

Index == [enabled |-> enabled, wordToFiles |-> wordToFiles, fileToWords |-> fileToWords]

NoIndexCall == [op |-> "init", path |-> << >>, content |-> << >>, prev |-> Absent]

InitIndex ==
    /\ enabled = TRUE
    /\ wordToFiles = EmptyDb
    /\ fileToWords = EmptyDb
    /\ indexOptions \in [minWordLength : { MinWordLength },
                         maxWordsPerFile : { SmallWordCap, DefaultMaxWordsPerFile },
                         stopWords : { DEFAULT_STOP_WORDS }]
    /\ indexCall = NoIndexCall

InitIndexOnly == InitIndex /\ CacheIdle /\ WatcherIdle /\ TrieIdle /\ ServiceIdle /\ KeyIdle /\ InsertIdle /\ PageIdle /\ CopyIdle /\ EnvIdle /\ VaultIdle

IndexBecomes(ix) ==
    /\ enabled' = ix.enabled
    /\ wordToFiles' = ix.wordToFiles
    /\ fileToWords' = ix.fileToWords

IndexContentCall ==
    /\ \E p \in IndexPaths, c \in IndexContents :
        /\ IndexBecomes(IndexContent(Index, indexOptions, p, c))
        /\ indexCall' =
            [op |-> "indexContent", path |-> p, content |-> c,
             prev |-> IF indexCall.op = "indexContent"
                      THEN Some([path |-> indexCall.path, content |-> indexCall.content])
                      ELSE Absent]
    /\ UNCHANGED << indexOptions, outsideIndex >>

IndexInvalidateCall ==
    /\ \E p \in IndexPaths :
        /\ IndexBecomes(IndexInvalidate(Index, p))
        /\ indexCall' = [NoIndexCall EXCEPT !.op = "invalidate", !.path = p]
    /\ UNCHANGED << indexOptions, outsideIndex >>

IndexClearCall ==
    /\ IndexBecomes(IndexClear(Index))
    /\ indexCall' = [NoIndexCall EXCEPT !.op = "clear"]
    /\ UNCHANGED << indexOptions, outsideIndex >>

IndexSetEnabledCall ==
    /\ \E on \in BOOLEAN :
        /\ IndexBecomes(IndexSetEnabled(Index, on))
        /\ indexCall' = [NoIndexCall EXCEPT !.op = "setEnabled"]
    /\ UNCHANGED << indexOptions, outsideIndex >>

NextIndex ==
    \/ IndexContentCall
    \/ IndexInvalidateCall
    \/ IndexClearCall
    \/ IndexSetEnabledCall

SpecIndex == InitIndexOnly /\ [][NextIndex]_vars

\* ------------------------------------------------------------------------
\* Properties of the inverted index
\* ------------------------------------------------------------------------
IndexedPaths == { IndexNormalizePath(p) : p \in IndexPaths }

IndexedWords == UNION { ExtractWords(c, indexOptions) : c \in IndexContents }

\* the words the index holds for a path, and the words whose file set lists the path
WordsOfFile(p) == IF p \in DOMAIN fileToWords THEN fileToWords[p] ELSE { }

WordsListing(p) == { w \in DOMAIN wordToFiles : p \in wordToFiles[w] }

\* C3: in every reachable state of the index a word is in fileToWords[path] if and
\* only if path is in wordToFiles[word].
C3_MutualInverse ==
    \A p \in IndexedPaths \cup DOMAIN fileToWords :
        \A w \in IndexedWords \cup DOMAIN wordToFiles :
            (w \in WordsOfFile(p)) <=> (w \in WordsListing(p))

C3_Witness ==
    /\ indexCall.op = "invalidate"
    /\ \E w \in DOMAIN wordToFiles : wordToFiles[w] # { }
    /\ \E p \in DOMAIN fileToWords : fileToWords[p] # { }

\* the last call was indexContent right after an indexContent of the same file
IsReindex ==
    /\ indexCall.op = "indexContent"
    /\ indexCall.prev # Absent
    /\ IndexNormalizePath(indexCall.prev[1].path) = IndexNormalizePath(indexCall.path)

\* C4: after indexContent(p, c1) followed by indexContent(p, c2) the index maps p to
\* exactly the tokens of c2 and no word that occurs only in c1 still lists p, for
\* every content c2.
C4_ReindexReplacesOldMappings ==
    (enabled /\ IsReindex) =>
        LET p == IndexNormalizePath(indexCall.path)
            tokens == ExtractWords(indexCall.content, indexOptions)
        IN  /\ WordsOfFile(p) = tokens
            /\ WordsListing(p) = tokens

\* the last call was indexContent with the path and content of the indexContent
\* right before it
IsRepeatedIndexContent(call) ==
    /\ call.op = "indexContent"
    /\ call.prev = Some([path |-> call.path, content |-> call.content])

\* C5: a second indexContent(p, c) right after indexContent(p, c) leaves wordToFiles
\* and fileToWords as the first call left them.
C5_IndexContentIdempotent ==
    [][ IsRepeatedIndexContent(indexCall')
            => (wordToFiles' = wordToFiles /\ fileToWords' = fileToWords) ]_vars

C5_Witness ==
    /\ IsRepeatedIndexContent(indexCall)
    /\ enabled
    /\ WordsOfFile(IndexNormalizePath(indexCall.path)) # { }
    /\ Cardinality(DOMAIN fileToWords) = 2

\* ------------------------------------------------------------------------
\* File watcher operations
\* ------------------------------------------------------------------------
MaxDelay == 2

\* "/v"
VaultPath == << "/", "v" >>

\* "/v/a.md" and "/v/i.png"
RawFilePaths ==
    { << "/", "v", "/", "a", ".", "m", "d" >>,
      << "/", "v", "/", "i", ".", "p", "n", "g" >> }

\* "/v/d"
RawDirPaths == { << "/", "v", "/", "d" >> }

\* the raw events chokidar emits: a kind and an absolute path
RawEvents ==
    ({ "add", "change", "unlink" } \X RawFilePaths) \cup ({ "addDir", "unlinkDir" } \X RawDirPaths)

\* how far the raw events a path received in the current window spell
\* add, change, unlink and nothing else
Spelled(progress, eventType) ==
    CASE progress = "none" /\ eventType = "add" -> "add"
      [] progress = "add" /\ eventType = "change" -> "add,change"
      [] progress = "add,change" /\ eventType = "unlink" -> "add,change,unlink"
      [] OTHER -> "other"

\* the events handleChange does not return early on
IsTracked(e) == e[1] \in { "addDir", "unlinkDir" } \/ EndsWith(e[2], << ".", "m", "d" >>)

NothingSeen == [p \in RawFilePaths |-> "none"]

\* the pending kind of a relative path, if it has one
PendingKind(w, relativePath) ==
    IF MapHas(w.pendingChanges, relativePath)
    THEN Some(MapGet(w.pendingChanges, relativePath).eventType)
    ELSE Absent

\* what a tracked raw event meets when handleChange runs for it
RawStored(e) ==
    [eventType |-> e[1],
     filePath |-> PathRelative(VaultPath, e[2]),
     existing |-> PendingKind(fw, PathRelative(VaultPath, e[2]))]

InitWatcher ==
    /\ fw = [watcher |-> "null", isWatching |-> FALSE, onChangeCallback |-> FALSE,
             debounceTimer |-> Absent, pendingChanges |-> << >>]
    /\ fwDelay \in 1..MaxDelay
    /\ fwSeen = NothingSeen
    /\ fwQuiet = [raw |-> 0, tracked |-> 0]
    /\ fwFlush = NoFlush
    /\ fwRaw = NoRaw

InitWatcherOnly == InitWatcher /\ CacheIdle /\ IndexIdle /\ TrieIdle /\ ServiceIdle /\ KeyIdle /\ InsertIdle /\ PageIdle /\ CopyIdle /\ EnvIdle /\ VaultIdle

\* the service starts the watcher it has constructed or stopped
Start ==
    /\ fw.watcher = "null"
    /\ fw' = StartWatcher(fw)
    /\ fwFlush' = NoFlush
    /\ fwRaw' = NoRaw
    /\ UNCHANGED << fwDelay, fwSeen, fwQuiet, outsideWatcher >>

\* chokidar's 'ready' event
Ready ==
    /\ fw.watcher = "open"
    /\ ~fw.isWatching
    /\ fw' = [fw EXCEPT !.isWatching = TRUE]
    /\ fwFlush' = NoFlush
    /\ fwRaw' = NoRaw
    /\ UNCHANGED << fwDelay, fwSeen, fwQuiet, outsideWatcher >>

\* a raw event of the open subscription, handled by handleChange
RawEvent ==
    /\ fw.watcher = "open"
    /\ \E e \in RawEvents :
        LET handled == HandleChange(fw, fwDelay, VaultPath, e[1], e[2]) IN
        /\ fw' = handled
        /\ fwSeen' = [p \in RawFilePaths |->
                        IF p = e[2] THEN Spelled(fwSeen[p], e[1]) ELSE fwSeen[p]]
        /\ fwQuiet' = [raw |-> 0, tracked |-> IF IsTracked(e) THEN 0 ELSE fwQuiet.tracked]
        /\ fwRaw' = IF IsTracked(e) THEN RawStored(e) ELSE NoRaw
    /\ fwFlush' = NoFlush
    /\ UNCHANGED << fwDelay, outsideWatcher >>

\* one unit of time passes while a timeout is scheduled
WatcherTick ==
    /\ fw.debounceTimer # Absent
    /\ fw.debounceTimer[1] > 0 \/ fwQuiet.raw < MaxDelay \/ fwQuiet.tracked < MaxDelay
    /\ fw' = [fw EXCEPT !.debounceTimer = Some(IF @[1] > 0 THEN @[1] - 1 ELSE 0)]
    /\ fwQuiet' = [raw |-> IF fwQuiet.raw < MaxDelay THEN fwQuiet.raw + 1 ELSE MaxDelay,
                   tracked |-> IF fwQuiet.tracked < MaxDelay THEN fwQuiet.tracked + 1
                               ELSE MaxDelay]
    /\ fwFlush' = NoFlush
    /\ fwRaw' = NoRaw
    /\ UNCHANGED << fwDelay, fwSeen, outsideWatcher >>

\* the timeout is due and its callback runs processPendingChanges
TimerFire ==
    /\ fw.debounceTimer = Some(0)
    /\ LET r == ProcessPendingChanges([fw EXCEPT !.debounceTimer = Absent]) IN
        /\ fw' = r.w
        /\ fwFlush' = [by |-> "timer", delivered |-> r.delivered,
                       pending |-> fw.pendingChanges, seen |-> fwSeen, quiet |-> fwQuiet,
                       subscription |-> fw.watcher]
    /\ fwSeen' = NothingSeen
    /\ fwQuiet' = [raw |-> 0, tracked |-> 0]
    /\ fwRaw' = NoRaw
    /\ UNCHANGED << fwDelay, outsideWatcher >>

\* stop() up to `await this.watcher.close()`
Stop ==
    /\ LET r == StopUntilClose(fw) IN
        /\ fw' = r.w
        /\ fwFlush' = [by |-> "stop", delivered |-> r.delivered,
                       pending |-> fw.pendingChanges, seen |-> fwSeen, quiet |-> fwQuiet,
                       subscription |-> r.subscription]
    /\ fwSeen' = NothingSeen
    /\ fwQuiet' = [raw |-> 0, tracked |-> 0]
    /\ fwRaw' = NoRaw
    /\ UNCHANGED << fwDelay, outsideWatcher >>

\* close() has resolved and stop() runs to its end
StopDone ==
    /\ fw.watcher = "closing"
    /\ fw' = StopAfterClose(fw)
    /\ fwFlush' = NoFlush
    /\ fwRaw' = NoRaw
    /\ UNCHANGED << fwDelay, fwSeen, fwQuiet, outsideWatcher >>

NextWatcher ==
    \/ Start
    \/ Ready
    \/ RawEvent
    \/ WatcherTick
    \/ TimerFire
    \/ Stop
    \/ StopDone

SpecWatcher == InitWatcherOnly /\ [][NextWatcher]_vars

\* ------------------------------------------------------------------------
\* File watcher behaviours: a callback that throws
\* ------------------------------------------------------------------------
\* the most entries the pending map can hold: a.md and d
MaxPending == 2

\* the timeout is due; the callback throws at its throwAt-th invocation or not at
\* all; an exception that leaves a timeout callback ends the process
TimerFireThrowing ==
    /\ fw.debounceTimer = Some(0)
    /\ \E throwAt \in 0..MaxPending :
        LET r == ProcessPendingChangesUntil([fw EXCEPT !.debounceTimer = Absent], throwAt) IN
        /\ fw' = IF r.threw THEN [r.w EXCEPT !.watcher = "exited"] ELSE r.w
        /\ fwFlush' = [by |-> "timer", delivered |-> r.delivered,
                       pending |-> fw.pendingChanges, seen |-> fwSeen, quiet |-> fwQuiet,
                       subscription |-> fw.watcher, threw |-> r.threw]
    /\ fwSeen' = NothingSeen
    /\ fwQuiet' = [raw |-> 0, tracked |-> 0]
    /\ fwRaw' = NoRaw
    /\ UNCHANGED << fwDelay, outsideWatcher >>

\* stop() up to `await this.watcher.close()`, or up to the exception
StopThrowing ==
    /\ fw.watcher # "exited"
    /\ \E throwAt \in 0..MaxPending :
        LET r == StopUntilCloseUntil(fw, throwAt) IN
        /\ fw' = r.w
        /\ fwFlush' = [by |-> "stop", delivered |-> r.delivered,
                       pending |-> fw.pendingChanges, seen |-> fwSeen, quiet |-> fwQuiet,
                       subscription |-> r.subscription, threw |-> r.threw]
    /\ fwSeen' = NothingSeen
    /\ fwQuiet' = [raw |-> 0, tracked |-> 0]
    /\ fwRaw' = NoRaw
    /\ UNCHANGED << fwDelay, outsideWatcher >>

NextThrow ==
    \/ Start
    \/ Ready
    \/ RawEvent
    \/ WatcherTick
    \/ TimerFireThrowing
    \/ StopThrowing
    \/ StopDone

SpecThrow == InitWatcherOnly /\ [][NextThrow]_vars

\* C36: a flush in which the callback threw has still handed every pending change
\* to the callback and has still cleared the pending map.
C36_ThrowingCallbackLosesNothing ==
    (fwFlush.by \in { "timer", "stop" } /\ fwFlush.threw) =>
        /\ \A i \in 1..Len(fwFlush.pending) :
              \E j \in 1..Len(fwFlush.delivered) :
                  fwFlush.delivered[j] = fwFlush.pending[i].val
        /\ fw.pendingChanges = << >>

\* ------------------------------------------------------------------------
\* File watcher behaviours: raw events while the subscription is closing
\* ------------------------------------------------------------------------
\* a raw event the subscription emits after close() was called and before it has
\* resolved; the handlers are still registered and handleChange looks at no state
RawEventWhileClosing ==
    /\ fw.watcher = "closing"
    /\ \E e \in RawEvents :
        /\ fw' = HandleChange(fw, fwDelay, VaultPath, e[1], e[2])
        /\ fwSeen' = [p \in RawFilePaths |->
                        IF p = e[2] THEN Spelled(fwSeen[p], e[1]) ELSE fwSeen[p]]
        /\ fwQuiet' = [raw |-> 0, tracked |-> IF IsTracked(e) THEN 0 ELSE fwQuiet.tracked]
        /\ fwRaw' = IF IsTracked(e) THEN RawStored(e) ELSE NoRaw
    /\ fwFlush' = NoFlush
    /\ UNCHANGED << fwDelay, outsideWatcher >>

NextClosing ==
    \/ Start
    \/ Ready
    \/ RawEvent
    \/ RawEventWhileClosing
    \/ WatcherTick
    \/ TimerFire
    \/ Stop
    \/ StopDone

SpecClosing == InitWatcherOnly /\ [][NextClosing]_vars

\* stop() has returned and start() has not been called since
Stopped == fw.watcher = "null" /\ fw.onChangeCallback

\* C37: once stop() has returned, no debounce timer is armed and the callback is
\* not invoked.
C37_QuietAfterStop ==
    Stopped =>
        /\ fw.debounceTimer = Absent
        /\ ~(fwFlush.by = "timer" /\ Len(fwFlush.delivered) > 0)

\* ------------------------------------------------------------------------
\* Properties of the file watcher
\* ------------------------------------------------------------------------
Flushed == fwFlush.by # "none"

\* the callback's invocations of the last flush for the path, as positions
DeliveredFor(rawPath) ==
    { i \in 1..Len(fwFlush.delivered) :
        fwFlush.delivered[i].filePath = PathRelative(VaultPath, rawPath) }

OnceAsUnlink(rawPath) ==
    /\ Cardinality(DeliveredFor(rawPath)) = 1
    /\ \A i \in DeliveredFor(rawPath) : fwFlush.delivered[i].eventType = "unlink"

\* C7 as stated: for every path p, add(p), change(p), unlink(p) within one window
\* make the callback run exactly once for p, with kind unlink.
C7_AnyPathOnceAsUnlink ==
    Flushed =>
        \A p \in RawFilePaths : fwFlush.seen[p] = "add,change,unlink" => OnceAsUnlink(p)

\* C7: for a markdown path p (a path ending in .md), add(p), change(p), unlink(p)
\* in that order and nothing else for p within one window make the callback run
\* exactly once for p, with kind unlink; the events of another file path never
\* reach the callback.
C7_MarkdownOnceAsUnlink ==
    Flushed =>
        \A p \in RawFilePaths :
            /\ (fwFlush.seen[p] = "add,change,unlink" /\ EndsWith(p, << ".", "m", "d" >>))
                    => OnceAsUnlink(p)
            /\ ~EndsWith(p, << ".", "m", "d" >>) => DeliveredFor(p) = { }

C7_Witness ==
    /\ fwFlush.by = "timer"
    /\ \E p \in RawFilePaths :
        /\ fwFlush.seen[p] = "add,change,unlink"
        /\ EndsWith(p, << ".", "m", "d" >>)
        /\ OnceAsUnlink(p)
    /\ Len(fwFlush.delivered) = 2

\* C8: one flush hands the callback at most one event per path.
C8_OneEventPerPath ==
    Flushed =>
        \A i, j \in 1..Len(fwFlush.delivered) :
            fwFlush.delivered[i].filePath = fwFlush.delivered[j].filePath => i = j

C8_Witness ==
    /\ Flushed
    /\ Len(fwFlush.delivered) = 2
    /\ \E p \in RawFilePaths : fwFlush.seen[p] = "other"

\* C9 as stated: whenever the callback runs, the debounce delay has elapsed since
\* the last raw event.
C9_QuietSinceAnyRawEvent ==
    (Flushed /\ Len(fwFlush.delivered) > 0) => fwFlush.quiet.raw >= fwDelay

\* C9: when the callback runs from the debounce timer, the debounce delay has
\* elapsed since the last raw event the watcher tracks (an event of a markdown
\* file or of a directory); stop() runs the callback at once.
C9_QuietSinceTrackedEvent ==
    (fwFlush.by = "timer" /\ Len(fwFlush.delivered) > 0)
        => fwFlush.quiet.tracked >= fwDelay

C9_Witness ==
    /\ fwFlush.by = "timer"
    /\ Len(fwFlush.delivered) > 0
    /\ fwDelay = MaxDelay
    /\ fwFlush.quiet.tracked >= fwDelay
    /\ fwFlush.quiet.raw < fwDelay

C35_TimerDeliversEachOnce ==
    fwFlush.by = "timer" =>
        /\ Len(fwFlush.delivered) = Len(fwFlush.pending)
        /\ \A i \in 1..Len(fwFlush.pending) :
              Cardinality({ j \in 1..Len(fwFlush.delivered) :
                              fwFlush.delivered[j] = fwFlush.pending[i].val }) = 1
        /\ fw.pendingChanges = << >>

C35_Witness ==
    /\ fwFlush.by = "timer"
    /\ Len(fwFlush.pending) = 2
    /\ Len(fwFlush.delivered) = 2
    /\ fw.pendingChanges = << >>

\* C10: stop() hands every pending change to the callback, while the subscription
\* is still open, and leaves no pending change behind.
C10_StopDeliversPending ==
    fwFlush.by = "stop" =>
        /\ fwFlush.delivered = [i \in 1..Len(fwFlush.pending) |-> fwFlush.pending[i].val]
        /\ fw.pendingChanges = << >>
        /\ fw.debounceTimer = Absent
        /\ Len(fwFlush.pending) > 0 => fwFlush.subscription = "open"

C10_Witness ==
    /\ fwFlush.by = "stop"
    /\ Len(fwFlush.pending) = 2
    /\ Len(fwFlush.delivered) = 2
    /\ fwFlush.quiet.tracked = 0
    /\ fw.watcher = "closing"

\* ------------------------------------------------------------------------
\* PathTrie behaviours
\* ------------------------------------------------------------------------
\* "", a.md, d/b.md, d\b.md, d/c.md, d (a file named like the directory), d//b.md, d/
TriePaths ==
    { << >>,
      << "a", ".", "m", "d" >>,
      << "d", "/", "b", ".", "m", "d" >>,
      << "d", "\\", "b", ".", "m", "d" >>,
      << "d", "/", "c", ".", "m", "d" >>,
      << "d" >>,
      << "d", "/", "/", "b", ".", "m", "d" >>,
      << "d", "/" >> }

InitTrie ==
    /\ trie = EmptyTrie
    /\ trieLive = { }
    /\ trieCall = NoTrieCall

InitTrieOnly ==
    InitTrie /\ CacheIdle /\ IndexIdle /\ WatcherIdle /\ ServiceIdle /\ KeyIdle /\ InsertIdle /\ PageIdle /\ CopyIdle /\ EnvIdle /\ VaultIdle

\* a path as the trie spells it; the empty string names no file
Spelling(p) == IF p = << >> THEN { } ELSE { TrieNormalizePath(p) }

TrieInsertCall ==
    \E p \in TriePaths :
        /\ trie' = TrieInsert(trie, p)
        /\ trieLive' = trieLive \cup Spelling(p)
        /\ trieCall' = [op |-> "insert", path |-> p, threw |-> FALSE]
        /\ UNCHANGED outsideTrie

TrieRemoveCall ==
    \E p \in TriePaths :
        LET r == TrieRemove(trie, p) IN
        /\ trie' = r.trie
        /\ trieLive' = trieLive \ Spelling(p)
        /\ trieCall' = [op |-> "remove", path |-> p, threw |-> r.threw]
        /\ UNCHANGED outsideTrie

TrieClearCall ==
    /\ trie' = TrieClear(trie)
    /\ trieLive' = { }
    /\ trieCall' = [op |-> "clear", path |-> << >>, threw |-> FALSE]
    /\ UNCHANGED outsideTrie

NextTrie ==
    \/ TrieInsertCall
    \/ TrieRemoveCall
    \/ TrieClearCall

SpecTrie == InitTrieOnly /\ [][NextTrie]_vars

\* ------------------------------------------------------------------------
\* PathTrie properties
\* ------------------------------------------------------------------------
\* C18: after any sequence of insert and remove calls, getAllFiles() as a set is the
\* set of the paths inserted and not removed since (a path is the same path under
\* either separator, and the empty string is no path)
C18_AllFilesAreLivePaths == TrieGetAllFiles(trie) = trieLive

\* a removal that left other paths behind, one of them inserted under a backslash
C18_Witness ==
    /\ trieCall.op = "remove"
    /\ TrieHas(trie, << "d", "\\", "b", ".", "m", "d" >>)
    /\ Cardinality(TrieGetAllFiles(trie)) >= 2
    /\ trieCall.path \notin TrieGetAllFiles(trie)
    /\ trieCall.path # << >>

\* C38: after any sequence of insert and remove calls, has(path) is true if and only
\* if the path is in the file set of a node that can be reached from the root.
C38_StoredIffInANode ==
    \A p \in TriePaths :
        TrieHas(trie, p) <=> TrieNormalizePath(p) \in CollectFiles(trie.root, RootNode)

\* C39: after any sequence of insert and remove calls, no node other than the root
\* is left with neither children nor files.
C39_NoEmptyNode ==
    \A n \in DOMAIN trie.root :
        n # RootNode => (TrieChildren(trie.root, n) # { } \/ trie.root[n].files # { })

\* ------------------------------------------------------------------------
\* FileSystemService behaviours
\* ------------------------------------------------------------------------
\* a.md, d/b.md, d\b.md: note paths relative to the vault
ServicePaths ==
    { << "a", ".", "m", "d" >>,
      << "d", "/", "b", ".", "m", "d" >>,
      << "d", "\\", "b", ".", "m", "d" >> }

ServiceDirs == { << "d" >> }

\* what the watcher delivers: a kind and a path relative to the vault
ServiceEvents ==
    ({ "add", "change", "unlink" } \X ServicePaths)
        \cup ({ "addDir", "unlinkDir" } \X ServiceDirs)

ServiceOptionSets == { WithQuery(<< "a" >>), [NoOptions EXCEPT !.glob = Some(<< "*" >>)] }

ServiceFolders == { "", "notes" }

\* "the cat"
ServiceContent == << "t", "h", "e", " ", "c", "a", "t" >>

Service ==
    [listing |-> [cache |-> fCache, db |-> fDb],
     search |-> [cache |-> sCache, db |-> sDb],
     content |-> [cache |-> cCache, db |-> cDb],
     index |-> Index,
     trie |-> trie]

ServiceBecomes(s) ==
    /\ fCache' = s.listing.cache
    /\ fDb' = s.listing.db
    /\ sCache' = s.search.cache
    /\ sDb' = s.search.db
    /\ cCache' = s.content.cache
    /\ cDb' = s.content.db
    /\ IndexBecomes(s.index)
    /\ trie' = s.trie

\* the search keys a get could be answered for, from memory or from the store
SearchKeysCached == MapKeys(sCache) \cup DOMAIN sDb

ServiceCall(op, kind, path) ==
    [op |-> op, kind |-> kind, path |-> path, cached |-> SearchKeysCached,
     held |-> NothingHeld]

\* how much the service held right before a call: content entries (memory or store),
\* indexed files, files in the trie, listings (memory or store)
ServiceHeld ==
    [content |-> Cardinality(MapKeys(cCache) \cup DOMAIN cDb),
     index |-> Cardinality(DOMAIN fileToWords),
     trie |-> TrieSize(trie),
     listing |-> Cardinality((DOMAIN fCache) \cup DOMAIN fDb)]

serviceFrame ==
    << now, configVars, recency, lastOp, indexOptions, indexCall, watcherVars, keyVars, insertVars, pageVars,
       copyVars, envVars, vaultVars >>

InitService ==
    /\ now = 0
    /\ focus = "service"
    /\ storeOpen = TRUE
    /\ cCache = << >>
    /\ cDb = EmptyDb
    /\ cMaxSize = MaxCap
    /\ fCache = EmptyDb
    /\ fDb = EmptyDb
    /\ fTtl = MaxTtl
    /\ sCache = << >>
    /\ sDb = EmptyDb
    /\ sCfg = [maxSize |-> MaxCap, ttl |-> MaxTtl, enableCompression |-> FALSE,
               compressionThreshold |-> SmallThreshold]
    /\ recency = << >>
    /\ lastOp = NoCall
    /\ enabled = TRUE
    /\ wordToFiles = EmptyDb
    /\ fileToWords = EmptyDb
    /\ indexOptions = [minWordLength |-> MinWordLength,
                       maxWordsPerFile |-> DefaultMaxWordsPerFile,
                       stopWords |-> DEFAULT_STOP_WORDS]
    /\ indexCall = NoIndexCall
    /\ TrieIdle
    /\ svcCall = [NoServiceCall EXCEPT !.cached = { }]

InitServiceOnly == InitService /\ WatcherIdle /\ KeyIdle /\ InsertIdle /\ PageIdle /\ CopyIdle /\ EnvIdle /\ VaultIdle

\* the watcher runs the callback for a delivered event
Deliver ==
    \E e \in ServiceEvents :
        /\ ServiceBecomes(OnFileEvent(Service, storeOpen, e[1], e[2]))
        /\ trieLive' = (CASE e[1] = "add" -> trieLive \cup Spelling(e[2])
                          [] e[1] = "unlink" -> trieLive \ Spelling(e[2])
                          [] OTHER -> trieLive)
        /\ svcCall' = ServiceCall("event", e[1], e[2])
        /\ UNCHANGED << trieCall, serviceFrame >>

CreateNoteCall ==
    \E p \in ServicePaths :
        /\ ServiceBecomes(CreateNote(Service, storeOpen, p))
        /\ trieLive' = trieLive \cup Spelling(p)
        /\ svcCall' = ServiceCall("createNote", "none", p)
        /\ UNCHANGED << trieCall, serviceFrame >>

\* exists: whether the file was there; a missing file is created (createIfNotExists)
UpdateNoteCall ==
    \E p \in ServicePaths, exists \in BOOLEAN :
        /\ ServiceBecomes(UpdateNote(Service, storeOpen, p, exists))
        /\ trieLive' = IF exists THEN trieLive ELSE trieLive \cup Spelling(p)
        /\ svcCall' = ServiceCall("updateNote", "none", p)
        /\ UNCHANGED << trieCall, serviceFrame >>

DeleteNoteCall ==
    \E p \in ServicePaths :
        /\ ServiceBecomes(DeleteNote(Service, storeOpen, p))
        /\ trieLive' = trieLive \ Spelling(p)
        /\ svcCall' = ServiceCall("deleteNote", "none", p)
        /\ UNCHANGED << trieCall, serviceFrame >>

ReadNoteCall ==
    \E p \in ServicePaths :
        /\ ServiceBecomes(ReadNote(Service, storeOpen, cMaxSize, indexOptions, p, 100,
                                   ServiceContent, now))
        /\ svcCall' = ServiceCall("readNote", "none", p)
        /\ UNCHANGED << trieLive, trieCall, serviceFrame >>

\* renameFolder, moveFolder or deleteFolder runs to its end
FolderCall ==
    \E op \in { "renameFolder", "moveFolder", "deleteFolder" } :
        /\ ServiceBecomes(IF op = "deleteFolder" THEN DeleteFolder(Service, storeOpen)
                          ELSE RenameFolder(Service, storeOpen))
        /\ trieLive' = { }
        /\ svcCall' = [ServiceCall(op, "none", << >>) EXCEPT !.held = ServiceHeld]
        /\ UNCHANGED << trieCall, serviceFrame >>

\* the service stores a search result it computed
StoreSearchResult ==
    \E o \in ServiceOptionSets :
        LET r == SearchSet(sCache, sDb, storeOpen, sCfg, o, SmallResults, now) IN
        /\ sCache' = r.cache
        /\ sDb' = r.db
        /\ svcCall' = ServiceCall("storeSearch", "none", << >>)
        /\ UNCHANGED << contentVars, listVars, indexVars, trieVars, now, configVars,
                        recency, lastOp, watcherVars, keyVars, insertVars, pageVars, copyVars,
                        envVars, vaultVars >>

\* the service stores a file listing it computed
StoreFileList ==
    \E f \in ServiceFolders :
        LET r == FileListSet(fCache, fDb, storeOpen, f, << "x.md" >>, now) IN
        /\ fCache' = r.cache
        /\ fDb' = r.db
        /\ svcCall' = ServiceCall("storeList", "none", << >>)
        /\ UNCHANGED << contentVars, searchVars, indexVars, trieVars, now, configVars,
                        recency, lastOp, watcherVars, keyVars, insertVars, pageVars, copyVars,
                        envVars, vaultVars >>

\* the process ends and a new one is constructed on the same store
ServiceRestart ==
    /\ cCache' = << >>
    /\ fCache' = EmptyDb
    /\ sCache' = << >>
    /\ IndexBecomes(IndexClear(Index))
    /\ trie' = EmptyTrie
    /\ trieLive' = { }
    /\ svcCall' = ServiceCall("restart", "none", << >>)
    /\ UNCHANGED << cDb, fDb, sDb, trieCall, serviceFrame >>

NextService ==
    \/ Deliver
    \/ CreateNoteCall
    \/ UpdateNoteCall
    \/ DeleteNoteCall
    \/ ReadNoteCall
    \/ FolderCall
    \/ StoreSearchResult
    \/ StoreFileList
    \/ ServiceRestart

SpecService == InitServiceOnly /\ [][NextService]_vars

\* ------------------------------------------------------------------------
\* FileSystemService properties
\* ------------------------------------------------------------------------
IsFileChange ==
    svcCall.op \in { "event", "createNote", "updateNote", "deleteNote" }

\* C11: after a delivered watcher event or a create/update/delete note operation,
\* get returns absent for every option set, in this process (memory, then store) and
\* in a process restarted on the same store, until a new result is stored
C11_FileChangeClearsSearchCache ==
    IsFileChange =>
        \A o \in SearchOptionSets :
            /\ SearchGet(sCache, sDb, storeOpen, sCfg, o, now).result = Absent
            /\ SearchGet(<< >>, sDb, storeOpen, sCfg, o, now).result = Absent

\* a content change arrived while both option sets were cached
C11_Witness ==
    /\ svcCall.op = "event"
    /\ svcCall.kind = "change"
    /\ Cardinality(svcCall.cached) = 2

\* what one callback run did to each part of the service
ListingCleared == fCache' = EmptyDb /\ fDb' = EmptyDb

SearchCleared == sCache' = << >> /\ sDb' = EmptyDb

ContentEntryRemoved(p) ==
    LET key == ContentNormalizePath(p) IN
    /\ ~ContentHas(cCache', cDb', storeOpen, p)
    /\ cCache' = MapDelete(cCache, key)
    /\ cDb' = FnRemove(cDb, { key })

IndexMappingsRemoved(p) ==
    LET key == IndexNormalizePath(p) IN
    /\ fileToWords' = FnRemove(fileToWords, { key })
    /\ \A w \in DOMAIN wordToFiles :
        wordToFiles[w] \ { key } =
            (IF w \in DOMAIN wordToFiles' THEN wordToFiles'[w] ELSE { })
    /\ DOMAIN wordToFiles' \subseteq DOMAIN wordToFiles
    /\ enabled' = enabled

TrieGained(p) ==
    /\ TrieHas(trie', p)
    /\ TrieGetAllFiles(trie') = TrieGetAllFiles(trie) \cup { TrieNormalizePath(p) }

TrieLost(p) ==
    /\ ~TrieHas(trie', p)
    /\ TrieGetAllFiles(trie') = TrieGetAllFiles(trie) \ { TrieNormalizePath(p) }

EventEffects(kind, p) ==
    CASE kind = "add" ->
            /\ ListingCleared /\ SearchCleared /\ TrieGained(p)
            /\ UNCHANGED << cCache, cDb, enabled, wordToFiles, fileToWords >>
      [] kind = "unlink" ->
            /\ ListingCleared /\ SearchCleared /\ ContentEntryRemoved(p)
            /\ IndexMappingsRemoved(p) /\ TrieLost(p)
      [] kind \in { "addDir", "unlinkDir" } ->
            /\ ListingCleared /\ SearchCleared
            /\ UNCHANGED << cCache, cDb, enabled, wordToFiles, fileToWords, trie >>
      [] kind = "change" ->
            /\ ContentEntryRemoved(p) /\ IndexMappingsRemoved(p) /\ SearchCleared
            /\ UNCHANGED << fCache, fDb, trie >>

\* C12: each delivered watcher event has exactly the listed effects: add(p) clears the
\* listing and the search cache and inserts p into the trie; unlink(p) clears both,
\* removes p's content entry and index mappings and removes p from the trie;
\* addDir/unlinkDir clear both; change(p) removes p's content entry and index mappings
\* and clears the search cache; everything else is left as it was
C12_EventEffectsExactly ==
    [][svcCall'.op = "event" => EventEffects(svcCall'.kind, svcCall'.path)]_vars

\* an unlink arrived for a file that was cached, indexed and in the trie, next to
\* another such file, which is still cached, indexed and in the trie
C12_Witness ==
    /\ svcCall.op = "event"
    /\ svcCall.kind = "unlink"
    /\ svcCall.path = << "a", ".", "m", "d" >>
    /\ svcCall.cached # { }
    /\ ContentHas(cCache, cDb, storeOpen, << "d", "/", "b", ".", "m", "d" >>)
    /\ << "d", "/", "b", ".", "m", "d" >> \in DOMAIN fileToWords
    /\ TrieHas(trie, << "d", "/", "b", ".", "m", "d" >>)

IsFolderOperation == svcCall.op \in { "renameFolder", "moveFolder", "deleteFolder" }

\* C21: right after renameFolder, moveFolder or deleteFolder has run to its end the
\* content cache is empty in memory and in the store, the inverted index and the path
\* trie are empty, and the listing and the search cache hold no entry in memory or in
\* the store.
C21_FolderOperationEmptiesEverything ==
    IsFolderOperation =>
        /\ cCache = << >>
        /\ cDb = EmptyDb
        /\ wordToFiles = EmptyDb
        /\ fileToWords = EmptyDb
        /\ trie = EmptyTrie
        /\ TrieGetAllFiles(trie) = { }
        /\ fCache = EmptyDb
        /\ fDb = EmptyDb
        /\ sCache = << >>
        /\ sDb = EmptyDb

\* a folder was renamed while content, index, trie, listing and search cache all held
\* something
C21_Witness ==
    /\ svcCall.op = "renameFolder"
    /\ svcCall.held.content > 0
    /\ svcCall.held.index > 0
    /\ svcCall.held.trie > 0
    /\ svcCall.held.listing > 0
    /\ svcCall.cached # { }

\* ------------------------------------------------------------------------
\* Search-cache keys
\* ------------------------------------------------------------------------
InitKey ==
    /\ keyLeft \in KeyOptionSets
    /\ keyRight \in KeyOptionSets
    /\ keyOut = Absent

InitKeyOnly ==
    InitKey /\ CacheIdle /\ IndexIdle /\ WatcherIdle /\ TrieIdle /\ ServiceIdle /\ CopyIdle
        /\ EnvIdle /\ VaultIdle /\ InsertIdle /\ PageIdle

KeyConfig ==
    [maxSize |-> MaxCap, ttl |-> MaxTtl, enableCompression |-> FALSE,
     compressionThreshold |-> SmallThreshold]

\* an empty cache: set(keyLeft, results), then get(keyRight)
StoreLeftGetRight ==
    /\ keyOut = Absent
    /\ LET stored == SearchSet(<< >>, EmptyDb, TRUE, KeyConfig, keyLeft, SmallResults, 0)
           got == SearchGet(stored.cache, stored.db, TRUE, KeyConfig, keyRight, 0)
       IN  keyOut' = Some([left |-> GenerateKey(keyLeft),
                           right |-> GenerateKey(keyRight),
                           got |-> got.result])
    /\ UNCHANGED << keyLeft, keyRight, insertVars, pageVars, cacheVars, indexVars, watcherVars, trieVars,
                    serviceVars, copyVars, envVars, vaultVars >>

NextKey == StoreLeftGetRight

SpecKey == InitKeyOnly /\ [][NextKey]_vars

\* the entries of a frontmatter object, whatever the order they were added in
FrontmatterEntries(options) ==
    IF options.frontmatter = Absent THEN { } ELSE SeqToSet(options.frontmatter[1])

\* the same option values: every field equal, the frontmatter as a set of entries
SameOptionValues(a, b) ==
    /\ [a EXCEPT !.frontmatter = Absent] = [b EXCEPT !.frontmatter = Absent]
    /\ (a.frontmatter = Absent) = (b.frontmatter = Absent)
    /\ FrontmatterEntries(a) = FrontmatterEntries(b)

\* C13: two option sets that differ in a field never get the same key, and get for
\* one never returns what was stored for the other
C13_DifferentOptionsDifferentKeys ==
    (keyOut # Absent /\ ~SameOptionValues(keyLeft, keyRight)) =>
        /\ keyOut[1].left # keyOut[1].right
        /\ keyOut[1].got = Absent

\* C14: two option sets with the same option values get the same key, whatever the
\* order their fields and the entries of their frontmatter were added in
C14_SameValuesSameKey ==
    (keyOut # Absent /\ SameOptionValues(keyLeft, keyRight)) =>
        keyOut[1].left = keyOut[1].right

\* ------------------------------------------------------------------------
\* SearchResultCache: callers that change what they hold
\* ------------------------------------------------------------------------
MaxHeap == 16

\* the caller's result list before any call: a match, the array of matches, the
\* result, the array of results
CallerHeap ==
    << [line |-> 1],
       Array(<< 1 >>),
       [path |-> "a.md", score |-> 7, matches |-> 2],
       Array(<< 3 >>) >>

CallerList == 4

InitCopy ==
    /\ heap = CallerHeap
    /\ heapEntry = Absent
    /\ heapHeld = { CallerList }
    /\ heapCall = [op |-> "init", object |-> 0, root |-> 0]

InitCopyOnly ==
    InitCopy /\ CacheIdle /\ IndexIdle /\ WatcherIdle /\ TrieIdle /\ ServiceIdle /\ KeyIdle /\ InsertIdle /\ PageIdle
        /\ EnvIdle /\ VaultIdle

outsideCopy ==
    << cacheVars, indexVars, watcherVars, trieVars, serviceVars, keyVars, insertVars, pageVars, envVars, vaultVars >>

\* the caller stores a list it holds
CopySet ==
    /\ Len(heap) + 4 <= MaxHeap
    /\ \E list \in heapHeld :
        LET r == SearchSetAt(heap, list) IN
        /\ Len(r.heap) <= MaxHeap
        /\ heap' = r.heap
        /\ heapEntry' = Some(r.ref)
        /\ heapCall' = [op |-> "set", object |-> 0, root |-> list]
    /\ UNCHANGED << heapHeld, outsideCopy >>

\* the caller gets the stored list and keeps what it was given
CopyGet ==
    /\ heapEntry # Absent
    /\ Len(heap) + 4 <= MaxHeap
    /\ LET r == SearchGetAt(heap, heapEntry[1]) IN
        /\ Len(r.heap) <= MaxHeap
        /\ heap' = r.heap
        /\ heapHeld' = heapHeld \cup { r.ref }
        /\ heapCall' = [op |-> "get", object |-> 0, root |-> r.ref]
    /\ UNCHANGED << heapEntry, outsideCopy >>

\* the caller changes an object it can reach from a list it holds
CopyMutate ==
    /\ \E list \in heapHeld :
        \E o \in ReachableFrom(heap, list) :
            /\ Mutated(heap[o]) # heap[o]
            /\ heap' = [heap EXCEPT ![o] = Mutated(@)]
            /\ heapCall' = [op |-> "mutate", object |-> o, root |-> list]
    /\ UNCHANGED << heapEntry, heapHeld, outsideCopy >>

NextCopy ==
    \/ CopySet
    \/ CopyGet
    \/ CopyMutate

SpecCopy == InitCopyOnly /\ [][NextCopy]_vars

\* C15: whatever a caller changes in a result list it got from get (or passed to
\* set), in the list itself, in a result or in a match, the list a later get returns
\* for the same options stays what it was
C15_CallerCannotChangeEntry ==
    [][(heapCall'.op = "mutate" /\ heapEntry # Absent) =>
            ResultListAt(heap', heapEntry[1]) = ResultListAt(heap, heapEntry[1])]_vars

\* a match of a list that get returned was overwritten, and the stored list still
\* has the match as it was stored
C15_Witness ==
    /\ heapCall.op = "mutate"
    /\ heapCall.root # CallerList
    /\ "line" \in DOMAIN heap[heapCall.object]
    /\ heapEntry # Absent
    /\ ResultListAt(heap, heapEntry[1]) =
            << [path |-> "a.md", score |-> 7, matches |-> << [line |-> 1] >>] >>

\* ------------------------------------------------------------------------
\* Shared environment behaviours
\* ------------------------------------------------------------------------
MaxCaches == 3

CachePaths == { "/c1", "/c2" }

PartitionNames == { "content", "search" }

InitEnv ==
    /\ env = EmptyEnv
    /\ envCaches = << >>
    /\ envTeardown = NoTeardown

InitEnvOnly ==
    InitEnv /\ CacheIdle /\ IndexIdle /\ WatcherIdle /\ TrieIdle /\ ServiceIdle /\ KeyIdle /\ InsertIdle /\ PageIdle
        /\ CopyIdle /\ VaultIdle

outsideEnv ==
    << cacheVars, indexVars, watcherVars, trieVars, serviceVars, keyVars, insertVars, pageVars, copyVars,
       vaultVars >>

\* the caches that opened a partition of the environment that is open and have not
\* called close()
Holders ==
    { i \in 1..Len(envCaches) :
        /\ envCaches[i].cache.db # Absent
        /\ ~envCaches[i].closed
        /\ env.rootDb = Some(envCaches[i].cache.db[1].path) }

ConstructCache ==
    /\ Len(envCaches) < MaxCaches
    /\ \E p \in CachePaths, n \in PartitionNames, fail \in OpenFailures :
        LET made == NewPersistentCache(env, p, n, fail) IN
        /\ env' = made.env
        /\ envCaches' = Append(envCaches, [cache |-> made.cache, closed |-> FALSE])
        /\ envTeardown' = IF made.closed
                          THEN [by |-> "openDatabase", holders |-> Cardinality(Holders)]
                          ELSE envTeardown
    /\ UNCHANGED outsideEnv

\* PersistentCache.close()
CloseCache ==
    /\ \E i \in 1..Len(envCaches) :
        /\ ~envCaches[i].closed
        /\ env' = CloseDatabase(env, envCaches[i].cache.dbName)
        /\ envCaches' = [envCaches EXCEPT ![i].closed = TRUE]
    /\ UNCHANGED << envTeardown, outsideEnv >>

\* PersistentCache.closeAll()
CloseAllCaches ==
    /\ env' = CloseAll(env)
    /\ envTeardown' = IF EnvIsOpen(env)
                      THEN [by |-> "closeAll", holders |-> Cardinality(Holders)]
                      ELSE envTeardown
    /\ UNCHANGED << envCaches, outsideEnv >>

NextEnv ==
    \/ ConstructCache
    \/ CloseCache
    \/ CloseAllCaches

SpecEnv == InitEnvOnly /\ [][NextEnv]_vars

\* C20: the environment is closed only by closeAll, or by a re-open with another
\* path when no cache holds a partition of it that it has not closed
C20_NoTeardownWhileHeld ==
    envTeardown.by = "openDatabase" => envTeardown.holders = 0

\* ------------------------------------------------------------------------
\* Search behaviours
\* ------------------------------------------------------------------------
\* A vault of two files at its root is edited from outside, the watcher delivers the
\* changes, and notes are read, listed and searched. The caches are the ones of the
\* default configuration: store open, index and trie enabled, no warm-up.
MaxEdits == 2

VaultA == << "a", ".", "m", "d" >>

VaultB == << "b", ".", "m", "d" >>

VaultPaths == { VaultA, VaultB }

\* "cat #t"
TextCat == << "c", "a", "t", " ", "#", "t" >>

\* "dog"
TextDog == << "d", "o", "g" >>

VaultTexts == { TextCat, TextDog }

\* what every call of the service reads of the configuration and of the clock
Cfg ==
    [open |-> storeOpen, contentMax |-> cMaxSize, listTtl |-> fTtl, search |-> sCfg,
     index |-> indexOptions, t |-> now]

searchFrame ==
    << now, configVars, recency, lastOp, indexOptions, indexCall, watcherVars, keyVars, insertVars, pageVars,
       copyVars, envVars, trieLive, trieCall, svcCall >>

InitSearch ==
    /\ InitService
    /\ vault = (VaultA :> [content |-> TextCat, mtime |-> 0])
                @@ (VaultB :> [content |-> TextDog, mtime |-> 0])
    /\ edits = 0
    /\ pending = << >>
    /\ srch \in { [NoSearch EXCEPT !.options = o] : o \in VaultOptionSets }
    /\ inflight = Absent

InitSearchOnly == InitSearch /\ WatcherIdle /\ KeyIdle /\ InsertIdle /\ PageIdle /\ CopyIdle /\ EnvIdle

PathsOf(results) == { r.path : r \in results }

VersionIn(v, file) == IF file \in DOMAIN v THEN v[file].mtime ELSE -1

SearchRecord(op, r) ==
    [op |-> op, options |-> srch.options, threw |-> r.threw, cached |-> r.cached,
     paths |-> PathsOf(r.results), candidates |-> r.candidates,
     narrowed |-> r.narrowed, files |-> r.files, saw |-> vault,
     settled |-> pending = << >>,
     read |-> IF op = "search" /\ OnlyPatterns(srch.options) THEN EmptyDb
              ELSE [f \in r.files |-> VersionIn(vault, f)]]

\* chokidar reports a change of the vault; the watcher keeps one pending change a path
Reported(eventType, filePath) ==
    LET existing == IF MapHas(pending, filePath)
                    THEN Some(MapGet(pending, filePath).eventType)
                    ELSE Absent
    IN  MapSet(pending, filePath,
               [eventType |-> CoalesceEventType(existing, eventType),
                filePath |-> filePath])

\* a file of the vault is written from outside the server
ExternalWrite ==
    \E p \in VaultPaths, text \in VaultTexts :
        /\ edits < MaxEdits
        /\ vault' = FnPut(vault, p, [content |-> text, mtime |-> edits + 1])
        /\ edits' = edits + 1
        /\ pending' = Reported(IF p \in DOMAIN vault THEN "change" ELSE "add", p)
        /\ UNCHANGED << contentVars, listVars, searchVars, enabled, wordToFiles,
                        fileToWords, trie, srch, inflight, searchFrame >>

\* a file of the vault is removed from outside the server
ExternalDelete ==
    \E p \in DOMAIN vault :
        /\ edits < MaxEdits
        /\ vault' = FnRemove(vault, { p })
        /\ edits' = edits + 1
        /\ pending' = Reported("unlink", p)
        /\ UNCHANGED << contentVars, listVars, searchVars, enabled, wordToFiles,
                        fileToWords, trie, srch, inflight, searchFrame >>

\* the debounce timer fires: the callback runs for every pending change
Flush ==
    /\ pending # << >>
    /\ \E s \in { DeliverAll(Service, storeOpen, pending) } : ServiceBecomes(s)
    /\ pending' = << >>
    /\ UNCHANGED << vault, edits, srch, inflight, searchFrame >>

\* readNote of a file that is there
VaultReadCall ==
    \E p \in DOMAIN vault :
        /\ \E r \in { ReadNoteIn(Service, Cfg, vault, p) } : ServiceBecomes(r.s)
        /\ UNCHANGED << vaultVars, searchFrame >>

\* listVaultFiles()
VaultListCall ==
    /\ \E r \in { ListVaultFiles(Service, Cfg, vault) } : ServiceBecomes(r.s)
    /\ UNCHANGED << vaultVars, searchFrame >>

\* searchVaultWithOptions(options) runs to its end
SearchCall ==
    /\ \E r \in { SearchVaultWithOptions(Service, Cfg, vault, srch.options) } :
          /\ ServiceBecomes(r.s)
          /\ srch' = SearchRecord("search", r)
    /\ UNCHANGED << vault, edits, pending, inflight, searchFrame >>

\* searchVaultStreaming(options) is consumed to its end
StreamCall ==
    /\ \E r \in { SearchVaultStreaming(Service, Cfg, vault, srch.options) } :
          /\ ServiceBecomes(r.s)
          /\ srch' = SearchRecord("stream",
                                  r @@ [cached |-> FALSE, candidates |-> r.files,
                                        narrowed |-> FALSE])
    /\ UNCHANGED << vault, edits, pending, inflight, searchFrame >>

NextSearch ==
    \/ ExternalWrite
    \/ ExternalDelete
    \/ Flush
    \/ VaultReadCall
    \/ VaultListCall
    \/ SearchCall
    \/ StreamCall

SpecSearch == InitSearchOnly /\ [][NextSearch]_vars

SearchTypeOK == srch.op \in { "init", "search", "stream" }

\* ------------------------------------------------------------------------
\* Search behaviours: a search between its awaits
\* ------------------------------------------------------------------------
\* searchVaultWithOptions awaits the candidates and then, file by file, the reads of
\* batchReadWithMetadata; the vault can change and the watcher can deliver between
\* two of them. What follows the last read (the filters, processResults and
\* searchResultCache.set) runs without another await.
\* inflight: the files still to read, the results so far, and what the call recorded
InitRace == InitSearchOnly

\* the call ends: its results are stored in the search cache and returned
SearchEnds(s, run, results) ==
    /\ \E stored \in { ResultsStored(s, Cfg, srch.options, results) } :
          ServiceBecomes(stored)
    /\ srch' = [op |-> "search", options |-> srch.options, threw |-> FALSE,
                cached |-> FALSE,
                paths |-> PathsOf(ProcessResults(results, srch.options)),
                candidates |-> run.candidates, narrowed |-> run.narrowed,
                files |-> run.files, saw |-> vault, settled |-> pending = << >>,
                read |-> run.read]
    /\ inflight' = Absent

\* the call up to its first read
SearchBegin ==
    \E start \in { SearchStart(Service, Cfg, vault, srch.options) } :
    LET run == [todo |-> SetToSeq(start.files), results |-> { },
                candidates |-> start.candidates, narrowed |-> start.narrowed,
                files |-> start.files, read |-> EmptyDb]
    IN  /\ inflight = Absent
        /\ ~start.threw
        /\ IF start.cached # Absent
           THEN /\ ServiceBecomes(start.s)
                /\ srch' = [NoSearch EXCEPT !.op = "search", !.options = srch.options,
                                            !.cached = TRUE,
                                            !.paths = PathsOf(SeqToSet(start.cached[1])),
                                            !.saw = vault,
                                            !.settled = pending = << >>]
                /\ inflight' = Absent
           ELSE IF OnlyPatterns(srch.options)
           THEN SearchEnds(start.s, run,
                           { [path |-> f, score |-> 10, matches |-> << >>] :
                               f \in start.files })
           ELSE IF start.files = { }
           THEN SearchEnds(start.s, run, { })
           ELSE /\ ServiceBecomes(start.s)
                /\ inflight' = Some(run)
                /\ srch' = srch
        /\ UNCHANGED << vault, edits, pending, searchFrame >>

\* one read of batchReadWithMetadata completes; after the last one the call ends
SearchRead ==
    /\ inflight # Absent
    /\ \E step \in { BatchStep(Service, Cfg, vault, srch.options,
                                 Head(inflight[1].todo), inflight[1].results) } :
       LET run == inflight[1]
           file == Head(run.todo)
           next == [run EXCEPT !.todo = Tail(@),
                               !.results = step.results,
                               !.read = FnPut(@, file, VersionIn(vault, file))]
       IN  IF next.todo = << >>
           THEN SearchEnds(step.s, next, step.results)
           ELSE /\ ServiceBecomes(step.s)
                /\ inflight' = Some(next)
                /\ srch' = srch
    /\ UNCHANGED << vault, edits, pending, searchFrame >>

NextRace ==
    \/ ExternalWrite
    \/ ExternalDelete
    \/ Flush
    \/ SearchBegin
    \/ SearchRead

SpecRace == InitRace /\ [][NextRace]_vars

\* ------------------------------------------------------------------------
\* Search properties
\* ------------------------------------------------------------------------
\* the last call was a regular search that computed its result, at a time when every
\* change of the vault had been delivered
ComputedSearch == srch.op = "search" /\ ~srch.threw /\ ~srch.cached

TextSearch ==
    /\ Truthy(srch.options.query)
    /\ ~Truthy(srch.options.glob)
    /\ srch.options.tags = Absent

GlobSearch ==
    /\ Truthy(srch.options.glob)
    /\ ~Truthy(srch.options.query)
    /\ srch.options.tags = Absent

\* C24: with the inverted index enabled, a text search that computes its result
\* after every change has been delivered returns every file of the vault whose content
\* contains the query, whatever was read or changed before
C24_IndexKeepsTextSearchComplete ==
    (ComputedSearch /\ TextSearch /\ srch.settled)
        => \A f \in DOMAIN srch.saw :
              Contains(srch.saw[f].content, srch.options.query[1]) => f \in srch.paths

\* C25: with the path trie enabled, a glob search that computes its result after
\* every change has been delivered returns every file of the vault that matches the
\* glob
C25_GlobSearchComplete ==
    (ComputedSearch /\ GlobSearch /\ srch.settled)
        => \A f \in DOMAIN srch.saw :
              Minimatch(f, srch.options.glob[1]) => f \in srch.paths

\* C26: when getCandidateFiles narrowed the candidates, the files that pass
\* filterFilesByPattern are among the candidates
C26_FilterStaysInCandidates ==
    (ComputedSearch /\ srch.narrowed) => srch.files \subseteq srch.candidates

\* C22: a batch search returns no result for a file it could not read
C22_UnreadableFileSkipped ==
    (ComputedSearch /\ ~OnlyPatterns(srch.options))
        => srch.paths \subseteq DOMAIN srch.saw

\* C23: a streaming search that runs after a regular search with the same options,
\* the vault unchanged in between, yields the paths the regular search returned
C23_StreamingSameAsRegular ==
    [][(srch.op = "search" /\ ~srch.threw /\ srch.saw = vault
            /\ srch'.op = "stream" /\ vault' = vault)
         => srch'.paths = srch.paths]_vars

\* the search cache can answer the options of the behaviour
ResultCached == KeyOf[srch.options] \in SearchKeysCached

\* C27: once every change of the vault has been delivered and no search is running,
\* a result list the search cache holds was computed from the files as they are now
C27_NoResultFromBeforeTheChange ==
    (inflight = Absent /\ pending = << >> /\ ComputedSearch /\ ResultCached)
        => \A f \in DOMAIN srch.read : srch.read[f] = VersionIn(vault, f)

\* ------------------------------------------------------------------------
\* setInMemory, statement by statement
\* ------------------------------------------------------------------------
\* the sizes a cache can be configured with: parseInt of the environment variable
MaxSizes == -1..MaxCap

\* a, b, c
InsertKeys == { << "a" >>, << "b" >>, << "c" >> }

InitInsert ==
    /\ ins \in { [of |-> c, cache |-> << >>, maxSize |-> n, pc |-> "idle", key |-> << >>,
                  passes |-> 0] :
                   c \in { "content", "search" }, n \in MaxSizes }

InitInsertOnly ==
    InitInsert /\ CacheIdle /\ IndexIdle /\ WatcherIdle /\ TrieIdle /\ ServiceIdle /\ KeyIdle
        /\ CopyIdle /\ EnvIdle /\ VaultIdle /\ PageIdle

outsideInsert ==
    << cacheVars, indexVars, watcherVars, trieVars, serviceVars, keyVars, pageVars, copyVars,
       envVars, vaultVars >>

\* if (this.cache.has(key)) this.cache.delete(key)
SetInMemoryHas(call) ==
    [call EXCEPT !.cache = IF MapHas(@, call.key) THEN MapDelete(@, call.key) ELSE @,
                 !.pc = "while"]

\* one pass of the body of `while (this.cache.size >= maxSize)`: the first key of the
\* Map is deleted; on an empty Map keys().next().value is undefined and nothing is
WhileBody(call) ==
    [call EXCEPT !.cache = IF Len(@) > 0 THEN MapDelete(@, @[1].key) ELSE @,
                 !.passes = 1 - @]

\* this.cache.set(key, entry), and the return
SetInMemoryEnd(call) ==
    [call EXCEPT !.cache = MapSet(@, call.key, call.key), !.pc = "idle", !.key = << >>,
                 !.passes = 0]

\* set() calls setInMemory(key, entry)
InsertCall ==
    /\ ins.pc = "idle"
    /\ \E k \in InsertKeys : ins' = [ins EXCEPT !.pc = "has", !.key = k]
    /\ UNCHANGED outsideInsert

InsertHas ==
    /\ ins.pc = "has"
    /\ ins' = SetInMemoryHas(ins)
    /\ UNCHANGED outsideInsert

\* the loop condition holds and the body runs
InsertEvict ==
    /\ ins.pc = "while"
    /\ Len(ins.cache) >= ins.maxSize
    /\ ins' = WhileBody(ins)
    /\ UNCHANGED outsideInsert

\* the loop condition fails
InsertSet ==
    /\ ins.pc = "while"
    /\ Len(ins.cache) < ins.maxSize
    /\ ins' = SetInMemoryEnd(ins)
    /\ UNCHANGED outsideInsert

\* the statements of a call that has started
InsertStep == InsertHas \/ InsertEvict \/ InsertSet

NextInsert ==
    \/ InsertCall
    \/ InsertHas
    \/ InsertEvict
    \/ InsertSet

\* a call that has started keeps running: the code is synchronous
SpecInsert == InitInsertOnly /\ [][NextInsert]_vars /\ WF_vars(InsertStep)

\* C40: every setInMemory call returns, whatever maxSize the cache was given.
C40_InsertTerminates == (ins.pc # "idle") ~> (ins.pc = "idle")

\* ------------------------------------------------------------------------
\* SearchResultFilter
\* ------------------------------------------------------------------------
\* Scores are counted in tenths: 10 is the score 1, 7 the default threshold 0.7.
ScoreOne == 10

HighQualityThreshold == 7

Least(a, b) == IF a <= b THEN a ELSE b

\* Array.prototype.slice(from, to) for indices that are not negative
Slice(list, from, to) == SubSeq(list, from + 1, Least(to, Len(list)))

FilterByMinScore(results, minScore) ==
    IF minScore <= 0 THEN results
    ELSE IF minScore > ScoreOne THEN << >>
    ELSE SelectSeq(results, LAMBDA result : result.score >= minScore)

ApplyPagination(results, limit, offset) ==
    IF limit <= 0 THEN << >>
    ELSE Only({ Slice(results, from, from + limit) :
                  from \in { IF offset < 0 THEN 0 ELSE offset } })

CountHighQualityResults(results, threshold) ==
    Len(SelectSeq(results, LAMBDA result : result.score >= threshold))

\* a stop that looks at the number of results only
ShouldStopEarly_TotalOnly(results, limit) ==
    IF limit <= 0 THEN FALSE ELSE Len(results) >= limit * 2

ShouldStopEarly(results, limit) ==
    IF limit <= 0 THEN FALSE
    ELSE /\ CountHighQualityResults(results, HighQualityThreshold) >= limit
         /\ Len(results) >= limit * 2

\* [...results].sort((a, b) => b.score - a.score): the sort is stable, a result goes
\* behind the results before it that score as much or more
RECURSIVE SortByScore(_)
SortByScore(results) ==
    IF results = << >> THEN << >>
    ELSE Only({ Only({ SubSeq(sorted, 1, k) \o << last >> \o SubSeq(sorted, k + 1, Len(sorted)) :
                         k \in { Cardinality({ j \in 1..Len(sorted) :
                                                 sorted[j].score >= last.score }) } }) :
                  sorted \in { SortByScore(SubSeq(results, 1, Len(results) - 1)) },
                  last \in { results[Len(results)] } })

\* processResults on the array of results; options: [minScore, limit, offset], each
\* given or not
ProcessResultList(results, options) ==
    Only({ IF options.limit # Absent /\ options.limit[1] > 0
           THEN ApplyPagination(sorted, options.limit[1],
                                IF options.offset = Absent THEN 0 ELSE options.offset[1])
           ELSE sorted :
             sorted \in { SortByScore(
                            IF options.minScore # Absent /\ options.minScore[1] > 0
                            THEN FilterByMinScore(results, options.minScore[1])
                            ELSE results) } })

\* ------------------------------------------------------------------------
\* Search behaviours: the batch loop, the early stop and the page
\* ------------------------------------------------------------------------
MaxFiles == 3
MaxBatch == 2
MaxLimit == 2
MaxOffset == 2

\* what a candidate file gives when its batch is processed: 0 for a file the query
\* does not match (no result), otherwise the score of its result
FileScores == { 0, 6, 8, 10 }

\* the minScore values: none, 0, 0.8 and a value above 1
MinScores == { Absent, Some(0), Some(8), Some(ScoreOne + 1) }

PageOptionSets ==
    [minScore : MinScores,
     limit : { Absent } \cup { Some(n) : n \in 1..MaxLimit },
     offset : { Absent } \cup { Some(n) : n \in 0..MaxOffset }]

InitPage ==
    pg \in { [files |-> f, batchSize |-> b, options |-> o, pc |-> "loop", i |-> 0,
              results |-> << >>, batches |-> 0, read |-> 0, broke |-> FALSE,
              page |-> << >>] :
               f \in [1..MaxFiles -> FileScores], b \in 1..MaxBatch, o \in PageOptionSets }

InitPageOnly ==
    InitPage /\ CacheIdle /\ IndexIdle /\ WatcherIdle /\ TrieIdle /\ ServiceIdle /\ KeyIdle
        /\ CopyIdle /\ EnvIdle /\ VaultIdle /\ InsertIdle

outsidePage ==
    << cacheVars, indexVars, watcherVars, trieVars, serviceVars, keyVars, insertVars, copyVars,
       envVars, vaultVars >>

\* the results of the files from..to: validResults of a batch; the k-th candidate
\* file is named k
ValidResults(files, from, to) ==
    SelectSeq([k \in 1..(to - from + 1) |->
                  [path |-> from + k - 1, score |-> files[from + k - 1]]],
              LAMBDA result : result.score # 0)

\* one pass of `for (let i = 0; i < files.length; i += batchSize)`: the batch is
\* read and processed, its results are pushed, and then the early stop is looked at
BatchPass(run) ==
    LET last == Least(run.i + run.batchSize, Len(run.files))
        results == run.results \o ValidResults(run.files, run.i + 1, last)
    IN  IF /\ run.options.limit # Absent
           /\ run.options.limit[1] > 0
           /\ ShouldStopEarly(results, run.options.limit[1])
        THEN [run EXCEPT !.results = results, !.batches = @ + 1, !.read = last,
                         !.broke = TRUE, !.pc = "end"]
        ELSE [run EXCEPT !.results = results, !.batches = @ + 1, !.read = last,
                         !.i = @ + run.batchSize]

PageBatch ==
    /\ pg.pc = "loop"
    /\ pg.i < Len(pg.files)
    /\ pg' = BatchPass(pg)
    /\ UNCHANGED outsidePage

\* the loop is over: processResults, and the return
PageEnd ==
    /\ pg.pc = "end" \/ (pg.pc = "loop" /\ pg.i >= Len(pg.files))
    /\ pg' = [pg EXCEPT !.page = ProcessResultList(pg.results, pg.options), !.pc = "done"]
    /\ UNCHANGED outsidePage

NextPage ==
    \/ PageBatch
    \/ PageEnd

SpecPage == InitPageOnly /\ [][NextPage]_vars

\* ------------------------------------------------------------------------
\* Properties of the batch loop and of the page
\* ------------------------------------------------------------------------
\* the results every candidate file gives, in the order of the files
AllResults == ValidResults(pg.files, 1, Len(pg.files))

LimitGiven == pg.options.limit # Absent

OffsetOrZero == IF pg.options.offset = Absent THEN 0 ELSE pg.options.offset[1]

\* C31: the early stop is looked at when a whole batch has been processed, never in
\* the middle of one, and the search reads no further batch exactly when the results
\* pushed so far hold at least `limit` results that score at or above the
\* high-quality threshold and at least twice `limit` results in all.
C31_StopsAtBatchBoundary ==
    pg.batches > 0 =>
        /\ pg.read = Least(pg.batches * pg.batchSize, Len(pg.files))
        /\ pg.results = ValidResults(pg.files, 1, pg.read)
        /\ pg.broke <=>
             /\ LimitGiven
             /\ Cardinality({ k \in 1..Len(pg.results) :
                                pg.results[k].score >= HighQualityThreshold })
                  >= pg.options.limit[1]
             /\ Len(pg.results) >= 2 * pg.options.limit[1]
        /\ pg.broke => pg.pc # "loop"
        /\ ~pg.broke => (pg.pc = "loop" \/ pg.read = Len(pg.files))

\* the search stopped after its first batch of two, with a file left unread
C31_Witness ==
    /\ pg.broke
    /\ pg.batchSize = 2
    /\ pg.batches = 1
    /\ pg.read < Len(pg.files)

\* C32: the page a search with a limit returns is the slice [offset, offset + limit)
\* of the score-sorted list of all matching results of the vault.
C32_PageIsSliceOfAllMatches ==
    (pg.pc = "done" /\ LimitGiven) =>
        pg.page =
            Slice(SortByScore(IF pg.options.minScore = Absent THEN AllResults
                              ELSE SelectSeq(AllResults,
                                             LAMBDA result :
                                                 result.score >= pg.options.minScore[1])),
                  OffsetOrZero, OffsetOrZero + pg.options.limit[1])

\* C33: processResults returns the results that score at least minScore, ordered by
\* non-increasing score, from position offset on and at most limit of them.
C33_FilterSortSlice ==
    pg.pc = "done" =>
        \E kept \in { IF pg.options.minScore = Absent THEN pg.results
                      ELSE SelectSeq(pg.results,
                                     LAMBDA result : result.score >= pg.options.minScore[1]) } :
            /\ pg.page =
                 Slice(SortByScore(kept), OffsetOrZero,
                       IF LimitGiven THEN OffsetOrZero + pg.options.limit[1] ELSE Len(kept))
            /\ \A k \in 1..(Len(pg.page) - 1) : pg.page[k].score >= pg.page[k + 1].score

====
